---- MODULE Spec2Model ----
(***************************************************************************)
(* Frequent-pattern mining engine of the data-mining dashboard: the        *)
(* Apriori handler, the FP-Growth handler, their rule generators and the   *)
(* rows they persist.                                                      *)
(*                                                                         *)
(* Item labels are strings in the source; here they are the integers       *)
(* 1..3, ordered as the labels are by JavaScript's default sort.  The      *)
(* FP-tree's root sentinel 'root' is the label 0, which is no item.        *)
(* A JavaScript number is a pair <<n, d>> standing for n/d, not            *)
(* normalised: d > 0 is a finite value, <<n, 0>> with n > 0 is Infinity    *)
(* and <<0, 0>> is NaN, so that division by zero behaves as in the source. *)
(* Arithmetic is exact (no binary rounding of the doubles).                *)
(***************************************************************************)
EXTENDS Integers, Sequences, FiniteSets, TLC

(***************************************************************************)
(* Bounds of the model                                                     *)
(***************************************************************************)
\* most rows of a file, for the files enumerated in full
MaxTx == 3

\* item labels
Items == {1, 2, 3}

\* the rows a file may hold: each a transaction's items in file order
\* (processExcelFile keeps the order of the columns and any repeated label)
TxPool == {<<1>>, <<2, 3>>, <<1, 2, 3>>, <<2, 1, 3>>, <<1, 1>>}

\* the labels of the sample transactions, numbered in lexicographic order
Bread == 1
Butter == 2
Eggs == 3
Milk == 4

\* the sample transactions T1 .. T5, items in file order
SampleTransactions ==
  << <<Bread, Milk, Eggs>>, <<Bread, Butter>>, <<Milk, Eggs, Butter>>,
     <<Bread, Milk, Butter>>, <<Bread, Eggs>> >>

\* files with more rows than MaxTx: four rows in which the tied items 1 and 2
\* come in both orders, and the sample transactions
LargerFiles == {<< <<1>>, <<2, 3>>, <<1, 2, 3>>, <<2, 1, 3>> >>, SampleTransactions}

\* min_support and min_confidence values of a request
SupportValues == {<<0, 1>>, <<1, 3>>, <<2, 5>>, <<1, 2>>, <<1, 1>>, <<3, 2>>}
ConfidenceValues == {<<0, 1>>, <<1, 2>>, <<1, 1>>, <<-1, 2>>}

(***************************************************************************)
(* JavaScript numbers and arrays                                           *)
(***************************************************************************)
IsNaN(x) == x[1] = 0 /\ x[2] = 0
IsInfinite(x) == x[1] # 0 /\ x[2] = 0
IsFinite(x) == x[2] # 0

\* x / y
Div(x, y) == <<x[1] * y[2], x[2] * y[1]>>

\* x >= y (false when either is NaN)
Geq(x, y) ==
  IF IsNaN(x) \/ IsNaN(y) THEN FALSE
  ELSE IF IsInfinite(x) THEN TRUE
  ELSE IF IsInfinite(y) THEN FALSE
  ELSE x[1] * y[2] >= y[1] * x[2]

\* x < y (false when either is NaN)
Lt(x, y) ==
  IF IsNaN(x) \/ IsNaN(y) THEN FALSE
  ELSE IF IsInfinite(x) THEN FALSE
  ELSE IF IsInfinite(y) THEN TRUE
  ELSE x[1] * y[2] < y[1] * x[2]

\* x and y are the same value
NumEq(x, y) ==
  IF IsNaN(x) \/ IsNaN(y) THEN FALSE
  ELSE IF IsInfinite(x) \/ IsInfinite(y) THEN IsInfinite(x) /\ IsInfinite(y)
  ELSE x[1] * y[2] = y[1] * x[2]

\* a threshold rounded down instead of up
FloorTimes(minSupport, totalTransactions) ==
  (minSupport[1] * totalTransactions) \div minSupport[2]

\* Math.ceil(minSupport * totalTransactions), minSupport finite
CeilTimes(minSupport, totalTransactions) ==
  LET n == minSupport[1] * totalTransactions
      d == minSupport[2]
  IN  IF n % d = 0 THEN n \div d ELSE (n \div d) + 1

\* array.includes(x)
Includes(s, x) == \E i \in DOMAIN s : s[i] = x

\* [...new Set(s)]: the first occurrence of each element, in order
RECURSIVE Dedup(_)
Dedup(s) ==
  IF s = <<>> THEN <<>>
  ELSE LET front == Dedup(SubSeq(s, 1, Len(s) - 1))
           last == s[Len(s)]
       IN  IF Includes(front, last) THEN front ELSE Append(front, last)

\* array.flat()
RECURSIVE Flatten(_)
Flatten(ss) ==
  IF ss = <<>> THEN <<>> ELSE Head(ss) \o Flatten(Tail(ss))

\* x inserted into the ascending sequence s, after the elements equal to it
RECURSIVE InsertAsc(_, _)
InsertAsc(s, x) ==
  IF s = <<>> THEN <<x>>
  ELSE IF s[Len(s)] <= x THEN Append(s, x)
  ELSE Append(InsertAsc(SubSeq(s, 1, Len(s) - 1), x), s[Len(s)])

\* array.sort() of labels
RECURSIVE Sort(_)
Sort(s) ==
  IF s = <<>> THEN <<>>
  ELSE InsertAsc(Sort(SubSeq(s, 1, Len(s) - 1)), s[Len(s)])

(***************************************************************************)
(* Apriori miner                                                           *)
(***************************************************************************)
\* a test that is met by a transaction holding any one item of the candidate
ContainsSome(transaction, candidate) ==
  \E j \in DOMAIN candidate : Includes(transaction, candidate[j])

\* the candidate occurs in the transaction
Contains(transaction, candidate) ==
  \A k \in DOMAIN candidate : Includes(transaction, candidate[k])

\* the inner counting loop of aprioriAlgorithm
CountSupport(transactions, candidate) ==
  Cardinality({t \in DOMAIN transactions : Contains(transactions[t], candidate)})

\* a join that leaves the new candidate in the order of its two itemsets
JoinPairUnsorted(itemset1, itemset2) ==
  IF Len(itemset1) = Len(itemset2)
  THEN LET commonItems == SelectSeq(itemset1, LAMBDA item : Includes(itemset2, item))
       IN  IF Len(commonItems) = Len(itemset1) - 1
           THEN LET newCandidate == Dedup(itemset1 \o itemset2)
                IN  IF Len(newCandidate) = Len(itemset1) + 1
                    THEN <<newCandidate>> ELSE <<>>
           ELSE <<>>
  ELSE <<>>

\* the join of generateCandidates for the pair (itemset1, itemset2):
\* <<newCandidate>> when the pair joins, <<>> otherwise
JoinPair(itemset1, itemset2) ==
  IF Len(itemset1) = Len(itemset2)
  THEN LET commonItems == SelectSeq(itemset1, LAMBDA item : Includes(itemset2, item))
       IN  IF Len(commonItems) = Len(itemset1) - 1
           THEN LET newCandidate == Sort(Dedup(itemset1 \o itemset2))
                IN  IF Len(newCandidate) = Len(itemset1) + 1
                    THEN <<newCandidate>> ELSE <<>>
           ELSE <<>>
  ELSE <<>>

\* the loops over i < j of generateCandidates, from the pair (i, j) on
RECURSIVE JoinFrom(_, _, _)
JoinFrom(frequentItemsets, i, j) ==
  IF i > Len(frequentItemsets) THEN <<>>
  ELSE IF j > Len(frequentItemsets) THEN JoinFrom(frequentItemsets, i + 1, i + 2)
  ELSE JoinPair(frequentItemsets[i], frequentItemsets[j])
         \o JoinFrom(frequentItemsets, i, j + 1)

generateCandidates(frequentItemsets) ==
  Dedup(JoinFrom(frequentItemsets, 1, 2))

\* a miner that drops the itemsets lying exactly on the threshold
MeetsMinSupportStrict(count, minSupportCount) == count > minSupportCount

\* count >= minSupportCount
MeetsMinSupport(count, minSupportCount) == count >= minSupportCount

\* the candidates of one level that reach minSupportCount, as ItemsetSupport
\* records; support is count / totalTransactions
RECURSIVE CountLevel(_, _, _)
CountLevel(transactions, minSupportCount, candidateItemsets) ==
  IF candidateItemsets = <<>> THEN <<>>
  ELSE LET candidate == Head(candidateItemsets)
           count == CountSupport(transactions, candidate)
           rest == CountLevel(transactions, minSupportCount, Tail(candidateItemsets))
       IN  IF MeetsMinSupport(count, minSupportCount)
           THEN <<[itemset |-> Sort(candidate),
                   support |-> <<count, Len(transactions)>>,
                   frequency |-> count]>> \o rest
           ELSE rest

\* the while loop of aprioriAlgorithm
RECURSIVE AprioriLevels(_, _, _)
AprioriLevels(transactions, minSupportCount, candidateItemsets) ==
  IF candidateItemsets = <<>> THEN <<>>
  ELSE LET itemsetSupports == CountLevel(transactions, minSupportCount, candidateItemsets)
           next == generateCandidates([k \in DOMAIN itemsetSupports |->
                                         itemsetSupports[k].itemset])
       IN  itemsetSupports \o AprioriLevels(transactions, minSupportCount, next)

aprioriAlgorithm(transactions, minSupport) ==
  LET minSupportCount == CeilTimes(minSupport, Len(transactions))
      allItems == Dedup(Flatten(transactions))
  IN  AprioriLevels(transactions, minSupportCount,
                    [k \in DOMAIN allItems |-> <<allItems[k]>>])

(***************************************************************************)
(* FP-tree                                                                 *)
(*                                                                         *)
(* The tree is an arena: nodes[1] is the root, a node's parent and         *)
(* nodeLink are indices into nodes, and 0 is null.  A node's children map  *)
(* is read off the arena: the child of n for an item is the node whose     *)
(* parent is n and whose item is that item.  headerTable and itemCounts    *)
(* are Maps, kept as sequences in insertion order.                         *)
(***************************************************************************)
RootLabel == 0

\* new FPNode(item, count, parent)
FPNode(item, count, parent) ==
  [item |-> item, count |-> count, parent |-> parent, nodeLink |-> 0]

\* number of occurrences of x in s
Occurrences(s, x) == Cardinality({i \in DOMAIN s : s[i] = x})

\* first pass of buildTree: item -> number of occurrences over all
\* transactions, in order of first occurrence
ItemCounts(transactions) ==
  LET all == Flatten(transactions)
      keys == Dedup(all)
  IN  [k \in DOMAIN keys |-> [item |-> keys[k], count |-> Occurrences(all, keys[k])]]

\* itemCounts.get(item) || 0
GetCount(itemCounts, item) ==
  IF \E k \in DOMAIN itemCounts : itemCounts[k].item = item
  THEN itemCounts[CHOOSE k \in DOMAIN itemCounts : itemCounts[k].item = item].count
  ELSE 0

\* the entry e inserted into s, sorted by descending count, after the
\* entries whose count is at least e's (Array.prototype.sort is stable)
RECURSIVE InsertByCountDesc(_, _)
InsertByCountDesc(s, e) ==
  IF s = <<>> THEN <<e>>
  ELSE IF s[Len(s)].count >= e.count THEN Append(s, e)
  ELSE Append(InsertByCountDesc(SubSeq(s, 1, Len(s) - 1), e), s[Len(s)])

\* s.sort((a, b) => b.count - a.count)
RECURSIVE SortByCountDesc(_)
SortByCountDesc(s) ==
  IF s = <<>> THEN <<>>
  ELSE InsertByCountDesc(SortByCountDesc(SubSeq(s, 1, Len(s) - 1)), s[Len(s)])

\* the entry e inserted into s, sorted by ascending count, after the entries
\* whose count is at most e's
RECURSIVE InsertByCountAsc(_, _)
InsertByCountAsc(s, e) ==
  IF s = <<>> THEN <<e>>
  ELSE IF s[Len(s)].count <= e.count THEN Append(s, e)
  ELSE Append(InsertByCountAsc(SubSeq(s, 1, Len(s) - 1), e), s[Len(s)])

\* s.sort((a, b) => a.count - b.count)
RECURSIVE SortByCountAsc(_)
SortByCountAsc(s) ==
  IF s = <<>> THEN <<>>
  ELSE InsertByCountAsc(SortByCountAsc(SubSeq(s, 1, Len(s) - 1)), s[Len(s)])

\* transaction.sort((a, b) => (itemCounts.get(b) || 0) - (itemCounts.get(a) || 0))
SortTransaction(transaction, itemCounts) ==
  LET keyed == [k \in DOMAIN transaction |->
                  [item |-> transaction[k],
                   count |-> GetCount(itemCounts, transaction[k])]]
      sorted == SortByCountDesc(keyed)
  IN  [k \in DOMAIN sorted |-> sorted[k].item]

\* the last node of the node-link chain that starts at node n
RECURSIVE ChainEnd(_, _)
ChainEnd(nodes, n) ==
  IF nodes[n].nodeLink = 0 THEN n ELSE ChainEnd(nodes, nodes[n].nodeLink)

\* a header update that makes the new node the head without linking it to
\* the nodes created before
LinkHeaderAtHead(tree, firstItem, newNode) ==
  IF \E h \in DOMAIN tree.headerTable : tree.headerTable[h].item = firstItem
  THEN LET h == CHOOSE h \in DOMAIN tree.headerTable :
                  tree.headerTable[h].item = firstItem
       IN  [tree EXCEPT !.headerTable[h].head = newNode]
  ELSE tree

\* the header-table links updated for the node newNode just created
LinkHeader(tree, firstItem, newNode) ==
  IF \E h \in DOMAIN tree.headerTable : tree.headerTable[h].item = firstItem
  THEN LET h == CHOOSE h \in DOMAIN tree.headerTable :
                  tree.headerTable[h].item = firstItem
       IN  IF tree.headerTable[h].head = 0
           THEN [tree EXCEPT !.headerTable[h].head = newNode]
           ELSE [tree EXCEPT
                   !.nodes[ChainEnd(tree.nodes, tree.headerTable[h].head)].nodeLink =
                     newNode]
  ELSE tree

RECURSIVE insertTransaction(_, _, _)
insertTransaction(tree, transaction, node) ==
  IF transaction = <<>> THEN tree
  ELSE LET firstItem == Head(transaction)
           restItems == Tail(transaction)
           children == {c \in DOMAIN tree.nodes :
                          tree.nodes[c].parent = node /\ tree.nodes[c].item = firstItem}
       IN  IF children # {}
           THEN LET childNode == CHOOSE c \in children : TRUE
                IN  insertTransaction(
                      [tree EXCEPT !.nodes[childNode].count = @ + 1],
                      restItems, childNode)
           ELSE LET newNode == Len(tree.nodes) + 1
                    added == [tree EXCEPT
                                !.nodes = Append(@, FPNode(firstItem, 1, node))]
                IN  insertTransaction(LinkHeader(added, firstItem, newNode),
                                      restItems, newNode)

\* second pass of buildTree over the transactions that are left
RECURSIVE InsertAll(_, _, _)
InsertAll(tree, itemCounts, transactions) ==
  IF transactions = <<>> THEN tree
  ELSE LET kept == SelectSeq(Head(transactions),
                     LAMBDA item : \E h \in DOMAIN tree.headerTable :
                                      tree.headerTable[h].item = item)
           filteredTransaction ==
             SortTransaction(kept, itemCounts)
       IN  IF Len(filteredTransaction) > 0
           THEN InsertAll(insertTransaction(tree, filteredTransaction, 1),
                          itemCounts, Tail(transactions))
           ELSE InsertAll(tree, itemCounts, Tail(transactions))

\* new FPTree(transactions, minSupport)
buildTree(transactions, minSupport) ==
  LET itemCounts == ItemCounts(transactions)
      frequentItems ==
        SortByCountDesc(SelectSeq(itemCounts, LAMBDA e : e.count >= minSupport))
      empty == [nodes |-> <<FPNode(RootLabel, 0, 0)>>,
                headerTable |-> [k \in DOMAIN frequentItems |->
                                   [item |-> frequentItems[k].item,
                                    count |-> frequentItems[k].count,
                                    head |-> 0]]]
  IN  InsertAll(empty, itemCounts, transactions)

\* the labels from the root down to pathNode, the root excluded
RECURSIVE PathTo(_, _)
PathTo(nodes, pathNode) ==
  IF pathNode = 0 THEN <<>>
  ELSE IF nodes[pathNode].item = RootLabel THEN <<>>
  ELSE Append(PathTo(nodes, nodes[pathNode].parent), nodes[pathNode].item)

\* a pattern base that pushes the path of a chain node once, whatever the
\* node's count
RECURSIVE PatternsOnceFrom(_, _)
PatternsOnceFrom(nodes, current) ==
  IF current = 0 THEN <<>>
  ELSE LET path == PathTo(nodes, nodes[current].parent)
       IN  (IF Len(path) > 0 THEN <<path>> ELSE <<>>)
             \o PatternsOnceFrom(nodes, nodes[current].nodeLink)

\* the patterns pushed from the chain node current on
RECURSIVE PatternsFrom(_, _)
PatternsFrom(nodes, current) ==
  IF current = 0 THEN <<>>
  ELSE LET path == PathTo(nodes, nodes[current].parent)
           copies == IF Len(path) > 0
                     THEN [i \in 1..nodes[current].count |-> path]
                     ELSE <<>>
       IN  copies \o PatternsFrom(nodes, nodes[current].nodeLink)

getConditionalPatternBase(tree, item) ==
  IF \E h \in DOMAIN tree.headerTable :
       tree.headerTable[h].item = item /\ tree.headerTable[h].head # 0
  THEN LET h == CHOOSE h \in DOMAIN tree.headerTable : tree.headerTable[h].item = item
       IN  PatternsFrom(tree.nodes, tree.headerTable[h].head)
  ELSE <<>>

(***************************************************************************)
(* FP-Growth miner                                                         *)
(***************************************************************************)
RECURSIVE fpGrowth(_, _, _)
\* the for loop of fpGrowth over the header entries items[k..]
RECURSIVE GrowFrom(_, _, _, _, _)
GrowFrom(tree, items, k, minSupport, prefix) ==
  IF k > Len(items) THEN <<>>
  ELSE LET newItemset == Append(prefix, items[k].item)
           conditionalPatternBase == getConditionalPatternBase(tree, items[k].item)
           conditionalFrequentItemsets ==
             IF Len(conditionalPatternBase) > 0
             THEN fpGrowth(conditionalPatternBase, minSupport, newItemset)
             ELSE <<>>
       IN  <<[itemset |-> newItemset, support |-> items[k].count]>>
             \o conditionalFrequentItemsets
             \o GrowFrom(tree, items, k + 1, minSupport, prefix)

fpGrowth(transactions, minSupport, prefix) ==
  LET tree == buildTree(transactions, minSupport)
      items == SortByCountAsc(tree.headerTable)
  IN  GrowFrom(tree, items, 1, minSupport, prefix)

(***************************************************************************)
(* Rule generators                                                         *)
(***************************************************************************)
\* 1 << j
Pow2(j) == 2 ^ j

\* the items of the split i that go to the antecedent (bit j set) or to the
\* consequent (bit j clear); positions are 0-based in the source
SplitSide(items, i, bit) ==
  LET picked == SelectSeq([j \in DOMAIN items |-> j],
                          LAMBDA j : ((i \div Pow2(j - 1)) % 2) = bit)
  IN  [k \in DOMAIN picked |-> items[picked[k]]]

\* a lookup that finds no entry
FindNoItemset(frequentItemsets, side) == 0

\* frequentItemsets.find(is => is.itemset.length === side.length &&
\*                             side.every(item => is.itemset.includes(item)))
\* as an index, 0 when there is none
FindItemset(frequentItemsets, side) ==
  LET hits == {k \in DOMAIN frequentItemsets :
                 /\ Len(frequentItemsets[k].itemset) = Len(side)
                 /\ \A j \in DOMAIN side : Includes(frequentItemsets[k].itemset, side[j])}
  IN  IF hits = {} THEN 0 ELSE CHOOSE k \in hits : \A h \in hits : k <= h

\* a generator that keeps every split whatever its confidence
IgnoresMinConfidence(confidence, minConfidence) == TRUE

\* confidence >= minConfidence of the Apriori generator
MeetsMinConfidence(confidence, minConfidence) == Geq(confidence, minConfidence)

\* the body of the split loop of the Apriori generator: <<rule>> or <<>>
aprioriRuleOfSplit(frequentItemsets, itemset, i, minConfidence) ==
  LET antecedent == SplitSide(itemset.itemset, i, 1)
      consequent == SplitSide(itemset.itemset, i, 0)
      antecedentItemset == FindItemset(frequentItemsets, antecedent)
  IN  IF antecedentItemset # 0
      THEN LET confidence == Div(itemset.support,
                                 frequentItemsets[antecedentItemset].support)
               consequentItemset == FindItemset(frequentItemsets, consequent)
               lift == IF consequentItemset # 0
                       THEN Div(confidence, frequentItemsets[consequentItemset].support)
                       ELSE confidence
           IN  IF MeetsMinConfidence(confidence, minConfidence)
               THEN <<[antecedent |-> Sort(antecedent),
                       consequent |-> Sort(consequent),
                       support |-> itemset.support,
                       confidence |-> confidence,
                       lift |-> lift]>>
               ELSE <<>>
      ELSE <<>>

\* the splits i, i + 1, ... of one itemset
RECURSIVE aprioriRulesOfItemset(_, _, _, _)
aprioriRulesOfItemset(frequentItemsets, itemset, i, minConfidence) ==
  IF i >= Pow2(Len(itemset.itemset)) - 1 THEN <<>>
  ELSE aprioriRuleOfSplit(frequentItemsets, itemset, i, minConfidence)
         \o aprioriRulesOfItemset(frequentItemsets, itemset, i + 1, minConfidence)

\* the rules of the itemsets k, k + 1, ... of the list
RECURSIVE aprioriRulesFrom(_, _, _)
aprioriRulesFrom(frequentItemsets, k, minConfidence) ==
  IF k > Len(frequentItemsets) THEN <<>>
  ELSE (IF Len(frequentItemsets[k].itemset) >= 2
        THEN aprioriRulesOfItemset(frequentItemsets, frequentItemsets[k], 1, minConfidence)
        ELSE <<>>)
         \o aprioriRulesFrom(frequentItemsets, k + 1, minConfidence)

\* generateAssociationRules of the Apriori handler
aprioriGenerateAssociationRules(frequentItemsets, minConfidence, totalTransactions) ==
  aprioriRulesFrom(frequentItemsets, 1, minConfidence)

\* the first loop of the FP-Growth generator sorts every itemset in place
SortItemsets(frequentItemsets) ==
  [k \in DOMAIN frequentItemsets |->
     [frequentItemsets[k] EXCEPT !.itemset = Sort(@)]]

\* supportMap.get(key) || 0: the map is filled in list order, so the last
\* entry with the key wins
SupportMapGet(frequentItemsets, key) ==
  LET hits == {k \in DOMAIN frequentItemsets : frequentItemsets[k].itemset = key}
  IN  IF hits = {} THEN 0
      ELSE frequentItemsets[CHOOSE k \in hits : \A h \in hits : k >= h].support

\* the body of the split loop of the FP-Growth generator: <<rule>> or <<>>;
\* frequentItemsets are already sorted in place, supports are counts
fpGrowthRuleOfSplit(frequentItemsets, entry, i, minConfidence, totalTransactions) ==
  LET antecedent == Sort(SplitSide(entry.itemset, i, 1))
      consequent == Sort(SplitSide(entry.itemset, i, 0))
      antecedentSupport == SupportMapGet(frequentItemsets, antecedent)
      consequentSupport == SupportMapGet(frequentItemsets, consequent)
      confidence == <<entry.support, antecedentSupport>>
      lift == <<entry.support * totalTransactions, antecedentSupport * consequentSupport>>
  IN  IF Len(antecedent) = 0 \/ Len(consequent) = 0 THEN <<>>
      ELSE IF antecedentSupport = 0 THEN <<>>
      ELSE IF Lt(confidence, minConfidence) THEN <<>>
      ELSE <<[antecedent |-> antecedent,
              consequent |-> consequent,
              support |-> entry.support,
              confidence |-> confidence,
              lift |-> lift]>>

RECURSIVE fpGrowthRulesOfItemset(_, _, _, _, _)
fpGrowthRulesOfItemset(frequentItemsets, entry, i, minConfidence, totalTransactions) ==
  IF i >= Pow2(Len(entry.itemset)) - 1 THEN <<>>
  ELSE fpGrowthRuleOfSplit(frequentItemsets, entry, i, minConfidence, totalTransactions)
         \o fpGrowthRulesOfItemset(frequentItemsets, entry, i + 1, minConfidence,
                                   totalTransactions)

RECURSIVE fpGrowthRulesFrom(_, _, _, _)
fpGrowthRulesFrom(frequentItemsets, k, minConfidence, totalTransactions) ==
  IF k > Len(frequentItemsets) THEN <<>>
  ELSE (IF Len(frequentItemsets[k].itemset) < 2 THEN <<>>
        ELSE fpGrowthRulesOfItemset(frequentItemsets, frequentItemsets[k], 1,
                                    minConfidence, totalTransactions))
         \o fpGrowthRulesFrom(frequentItemsets, k + 1, minConfidence, totalTransactions)

\* generateAssociationRules of the FP-Growth handler, given the list as its
\* first loop leaves it (SortItemsets)
fpGrowthGenerateAssociationRules(frequentItemsets, minConfidence, totalTransactions) ==
  fpGrowthRulesFrom(frequentItemsets, 1, minConfidence, totalTransactions)

(***************************************************************************)
(* The database                                                            *)
(*                                                                         *)
(* A numeric(p, s) column keeps s decimals: a finite value is rounded half *)
(* away from zero to a multiple of 10^-s, NaN is stored as NaN, and a      *)
(* value that is infinite or needs more than p - s integer digits makes    *)
(* the insert fail.                                                        *)
(***************************************************************************)
\* scale of frequent_itemsets.support and of the three columns of a rule
SupportScale == 6
\* integer digits those columns hold (precision 8, scale 6)
SupportIntDigits == 2
\* scale of analysis_results.min_support and min_confidence (precision 5)
ThresholdScale == 4

\* the value a numeric column of the given scale stores for x; x is finite
\* and not negative, or NaN
ToNumeric(x, scale) ==
  IF IsNaN(x) THEN x
  ELSE <<(2 * x[1] * (10 ^ scale) + x[2]) \div (2 * x[2]), 10 ^ scale>>

\* the column can hold x
NumericFits(x, scale, intDigits) ==
  \/ IsNaN(x)
  \/ /\ IsFinite(x)
     /\ ToNumeric(x, scale)[1] < 10 ^ (scale + intDigits)

Algorithms == {"apriori", "fp-growth"}

\* the file that has been uploaded, and an id no file has
ExistingFile == 1
MissingFile == 999999

\* error messages
NoTransactionsApriori == "No transactions found for the specified file upload"
NoTransactionsFpGrowth == "No transactions found for the specified file"
DatabaseError == "database error"
NoError == "null"

VARIABLES
  transactionsTable,      \* rows of transactions: [file_upload_id, items]
  analysisResultsTable,   \* rows of analysis_results
  frequentItemsetsTable,  \* rows of frequent_itemsets
  associationRulesTable,  \* rows of association_rules
  pc,                     \* where the running handler is (the await it is at)
  handler,                \* the entry point called: "apriori" or "fp-growth"
  input,                  \* the CreateAnalysisInput of the call
  analysisId,             \* id of the analysis record of the call, 0 before
  frequentItemsets,       \* the miner's result held by the call
  associationRules,       \* the rule generator's result held by the call
  totalTransactions,      \* transactionItems.length of the call, 0 before
  error                   \* the error the call has thrown or is handling

VARIABLES
  fileUploadsTable,       \* rows of file_uploads: [id, status]
  fileOnDisk,             \* the uploaded file at file_path: its lines, or NoFile
  uploadPc,               \* where the running processExcelFile is
  fileUploadId,           \* the argument of the processExcelFile call, 0 before
  dataRows,               \* the rows processExcelFile has still to go through
  uploadTransactions,     \* processExcelFile's transactions: what it has inserted
  uploadError             \* the error processExcelFile has thrown or is handling

VARIABLES
  firstCall,              \* what the first analysis call of a session mined
  rulesResult             \* what getAssociationRules returned, NoResult before

VARIABLES
  selectedAnalysis,       \* App's selectedAnalysis, the analysisId prop; 0 is null
  dashboardData,          \* DashboardVisualization's dashboardData
  isLoading,              \* DashboardVisualization's isLoading
  dashboardError,         \* DashboardVisualization's error
  requests                \* the getDashboardData queries issued, in order

uploadVars == <<fileUploadsTable, fileOnDisk, uploadPc, fileUploadId, dataRows,
                uploadTransactions, uploadError>>
sessionVars == <<firstCall, rulesResult>>
dashboardVars == <<selectedAnalysis, dashboardData, isLoading, dashboardError, requests>>
analysisVars == <<analysisResultsTable, frequentItemsetsTable, associationRulesTable,
                  pc, handler, input, analysisId, frequentItemsets,
                  associationRules, totalTransactions, error>>

vars == <<transactionsTable, analysisResultsTable, frequentItemsetsTable,
          associationRulesTable, pc, handler, input, analysisId,
          frequentItemsets, associationRules, totalTransactions, error,
          uploadVars, sessionVars, dashboardVars>>

\* the lists of at most MaxTx rows of the pool, and the larger files
Files == UNION {[1..n -> TxPool] : n \in 0..MaxTx} \cup LargerFiles

\* db.select().from(transactionsTable).where(eq(file_upload_id, id)), mapped
\* to the item arrays
transactionItemsOf(id) ==
  LET rows == SelectSeq(transactionsTable, LAMBDA r : r.file_upload_id = id)
  IN  [k \in DOMAIN rows |-> rows[k].items]

\* createAnalysisInputSchema: both thresholds are numbers in [0, 1]
createAnalysisInputSchema(in) ==
  /\ in.algorithm \in Algorithms
  /\ Geq(in.min_support, <<0, 1>>) /\ Geq(<<1, 1>>, in.min_support)
  /\ Geq(in.min_confidence, <<0, 1>>) /\ Geq(<<1, 1>>, in.min_confidence)

Inputs ==
  [file_upload_id : {ExistingFile, MissingFile},
   algorithm : Algorithms,
   min_support : SupportValues,
   min_confidence : ConfidenceValues]

NoInput ==
  [file_upload_id |-> 0, algorithm |-> "none",
   min_support |-> <<0, 0>>, min_confidence |-> <<0, 0>>]

\* no file on disk, and a file on disk with its lines
NoFile == [exists |-> FALSE, lines |-> <<>>]
FileWith(lines) == [exists |-> TRUE, lines |-> lines]

\* the error of readFile when there is no file at file_path
NoSuchFile == "ENOENT: no such file or directory"

\* getAssociationRules has not been called
NoResult == [analysisId |-> 0, rules |-> <<>>]

\* no analysis call of the session has mined yet
NoCall == [handler |-> "none", mined |-> FALSE, frequentItemsets |-> <<>>]

\* the file has been processed before: its record is 'completed', no
\* processExcelFile call is running (the analysis handlers never read the
\* file on disk)
FileProcessed ==
  /\ fileUploadsTable = <<[id |-> ExistingFile, status |-> "completed"]>>
  /\ fileOnDisk = NoFile
  /\ uploadPc = "idle"
  /\ fileUploadId = 0
  /\ dataRows = <<>>
  /\ uploadTransactions = <<>>
  /\ uploadError = NoError

SessionStart ==
  /\ firstCall = NoCall
  /\ rulesResult = NoResult

\* no analysis is selected: App renders no DashboardVisualization, whose
\* state would start as its useState calls give it
NoDashboardData == [analysis_id |-> 0]
DashboardClosed ==
  /\ selectedAnalysis = 0
  /\ dashboardData = NoDashboardData
  /\ isLoading = TRUE
  /\ dashboardError = NoError
  /\ requests = <<>>

Init ==
  /\ \E file \in Files :
       transactionsTable =
         [k \in DOMAIN file |-> [file_upload_id |-> ExistingFile, items |-> file[k]]]
  /\ analysisResultsTable = <<>>
  /\ frequentItemsetsTable = <<>>
  /\ associationRulesTable = <<>>
  /\ pc = "idle"
  /\ handler = "none"
  /\ input = NoInput
  /\ analysisId = 0
  /\ frequentItemsets = <<>>
  /\ associationRules = <<>>
  /\ totalTransactions = 0
  /\ error = NoError
  /\ FileProcessed
  /\ SessionStart
  /\ DashboardClosed

tables == <<transactionsTable, analysisResultsTable, frequentItemsetsTable,
            associationRulesTable>>
locals == <<frequentItemsets, associationRules, totalTransactions>>

(***************************************************************************)
(* The two entry points, one action per await                              *)
(***************************************************************************)
\* the router validates the input and calls the handler h
Call(h, in) ==
  /\ pc = "idle"
  /\ createAnalysisInputSchema(in)
  /\ pc' = "insertAnalysis"
  /\ handler' = h
  /\ input' = in
  /\ UNCHANGED <<tables, locals, analysisId, error>>
  /\ UNCHANGED <<uploadVars, sessionVars, dashboardVars>>

\* the router rejects an input the schema does not accept; no handler runs
Reject(h, in) ==
  /\ pc = "idle"
  /\ ~createAnalysisInputSchema(in)
  /\ pc' = "rejected"
  /\ handler' = h
  /\ input' = in
  /\ UNCHANGED <<tables, locals, analysisId, error>>
  /\ UNCHANGED <<uploadVars, sessionVars, dashboardVars>>

\* the algorithm column the handler writes
recordedAlgorithm == IF handler = "apriori" THEN input.algorithm ELSE "fp-growth"

\* 1. the analysis record is inserted with status 'processing'
CreateAnalysis ==
  /\ pc = "insertAnalysis"
  /\ LET id == Len(analysisResultsTable) + 1
     IN  /\ analysisResultsTable' =
               Append(analysisResultsTable,
                      [id |-> id,
                       file_upload_id |-> input.file_upload_id,
                       algorithm |-> recordedAlgorithm,
                       min_support |-> ToNumeric(input.min_support, ThresholdScale),
                       min_confidence |-> ToNumeric(input.min_confidence, ThresholdScale),
                       status |-> "processing",
                       summary |-> <<>>,
                       error_message |-> NoError,
                       completed_at |-> FALSE])
         /\ analysisId' = id
  /\ pc' = "selectTransactions"
  /\ UNCHANGED <<transactionsTable, frequentItemsetsTable, associationRulesTable,
                 locals, handler, input, error>>
  /\ UNCHANGED <<uploadVars, sessionVars, dashboardVars>>

\* a handler without the check for an empty list: it goes on with no itemset
\* and no rule
NoTransactionsUnchecked ==
  /\ pc = "selectTransactions"
  /\ Len(transactionItemsOf(input.file_upload_id)) = 0
  /\ pc' = "updateCompleted"
  /\ UNCHANGED <<tables, locals, handler, input, analysisId, error>>
  /\ UNCHANGED <<uploadVars, sessionVars, dashboardVars>>

\* 2. the select returns no row: the handler throws and its catch starts
NoTransactions ==
  /\ pc = "selectTransactions"
  /\ Len(transactionItemsOf(input.file_upload_id)) = 0
  /\ error' = IF handler = "apriori" THEN NoTransactionsApriori
              ELSE NoTransactionsFpGrowth
  /\ pc' = "updateFailed"
  /\ UNCHANGED <<tables, locals, handler, input, analysisId>>
  /\ UNCHANGED <<uploadVars, sessionVars, dashboardVars>>

\* a miner that keeps the itemsets of the earlier call and adds them to its
\* result
minedItemsetsKept(h, transactionItems, minSupport) ==
  firstCall.frequentItemsets
    \o (IF h = "apriori"
        THEN aprioriAlgorithm(transactionItems, minSupport)
        ELSE SortItemsets(fpGrowth(transactionItems,
                                   CeilTimes(minSupport, Len(transactionItems)), <<>>)))

\* the frequent itemsets the handler h holds after mining and generating the
\* rules (the FP-Growth generator has then sorted each itemset in place)
minedItemsets(h, transactionItems, minSupport) ==
  IF h = "apriori"
  THEN aprioriAlgorithm(transactionItems, minSupport)
  ELSE SortItemsets(fpGrowth(transactionItems,
                             CeilTimes(minSupport, Len(transactionItems)), <<>>))

\* the rules the handler h generates from its itemsets
generatedRules(h, itemsets, minConfidence, total) ==
  IF h = "apriori"
  THEN aprioriGenerateAssociationRules(itemsets, minConfidence, total)
  ELSE fpGrowthGenerateAssociationRules(itemsets, minConfidence, total)

\* a handler that inserts the itemsets without looking at the list's length
NextSaveUnguarded(itemsets, rules, itemsetsSaved) ==
  IF ~itemsetsSaved THEN "insertItemsets"
  ELSE IF Len(rules) > 0 THEN "insertRules"
  ELSE "updateCompleted"

\* the await the handler reaches next, given what is left to save
NextSave(itemsets, rules, itemsetsSaved) ==
  IF ~itemsetsSaved /\ Len(itemsets) > 0 THEN "insertItemsets"
  ELSE IF Len(rules) > 0 THEN "insertRules"
  ELSE "updateCompleted"

\* 2. - 4. the select returns the rows; the handler mines them and generates
\* the rules (synchronous code up to the next await)
Mine ==
  /\ pc = "selectTransactions"
  /\ LET transactionItems == transactionItemsOf(input.file_upload_id)
     IN  /\ Len(transactionItems) # 0
         /\ LET itemsets == minedItemsets(handler, transactionItems, input.min_support)
                rules == generatedRules(handler, itemsets, input.min_confidence,
                                        Len(transactionItems))
            IN  /\ frequentItemsets' = itemsets
                /\ associationRules' = rules
                /\ totalTransactions' = Len(transactionItems)
                /\ pc' = NextSave(itemsets, rules, FALSE)
  /\ UNCHANGED <<tables, handler, input, analysisId, error>>
  /\ UNCHANGED <<uploadVars, sessionVars, dashboardVars>>

\* the support of an itemset or rule as the handler writes it: the Apriori
\* handler holds fractions, the FP-Growth handler counts it divides by
\* totalTransactions
writtenSupport(support) ==
  IF handler = "apriori" THEN support ELSE <<support, totalTransactions>>

\* the frequency the handler writes for an itemset
writtenFrequency(itemset) ==
  IF handler = "apriori" THEN itemset.frequency ELSE itemset.support

itemsetRows ==
  [k \in DOMAIN frequentItemsets |->
     [analysis_id |-> analysisId,
      itemset |-> frequentItemsets[k].itemset,
      support |-> ToNumeric(writtenSupport(frequentItemsets[k].support), SupportScale),
      frequency |-> writtenFrequency(frequentItemsets[k]),
      algorithm |-> recordedAlgorithm]]

ruleRows ==
  [k \in DOMAIN associationRules |->
     [analysis_id |-> analysisId,
      antecedent |-> associationRules[k].antecedent,
      consequent |-> associationRules[k].consequent,
      support |-> ToNumeric(writtenSupport(associationRules[k].support), SupportScale),
      confidence |-> ToNumeric(associationRules[k].confidence, SupportScale),
      lift |-> ToNumeric(associationRules[k].lift, SupportScale),
      algorithm |-> recordedAlgorithm]]

\* every value of the rows fits its column (no row has one that does not)
itemsetRowsFit ==
  {k \in DOMAIN frequentItemsets :
     ~NumericFits(writtenSupport(frequentItemsets[k].support), SupportScale,
                  SupportIntDigits)} = {}

ruleRowsFit ==
  {k \in DOMAIN associationRules :
     ~(/\ NumericFits(writtenSupport(associationRules[k].support), SupportScale,
                      SupportIntDigits)
       /\ NumericFits(associationRules[k].confidence, SupportScale, SupportIntDigits)
       /\ NumericFits(associationRules[k].lift, SupportScale, SupportIntDigits))} = {}

\* 5. the frequent itemsets are inserted
SaveItemsets ==
  /\ pc = "insertItemsets"
  /\ itemsetRowsFit
  /\ frequentItemsetsTable' = frequentItemsetsTable \o itemsetRows
  /\ pc' = NextSave(frequentItemsets, associationRules, TRUE)
  /\ UNCHANGED <<transactionsTable, analysisResultsTable, associationRulesTable,
                 locals, handler, input, analysisId, error>>
  /\ UNCHANGED <<uploadVars, sessionVars, dashboardVars>>

\* 5. the association rules are inserted
SaveRules ==
  /\ pc = "insertRules"
  /\ ruleRowsFit
  /\ associationRulesTable' = associationRulesTable \o ruleRows
  /\ pc' = "updateCompleted"
  /\ UNCHANGED <<transactionsTable, analysisResultsTable, frequentItemsetsTable,
                 locals, handler, input, analysisId, error>>
  /\ UNCHANGED <<uploadVars, sessionVars, dashboardVars>>

\* 5. the insert is refused because a value does not fit its column
SaveRefused ==
  /\ \/ pc = "insertItemsets" /\ ~itemsetRowsFit
     \/ pc = "insertRules" /\ ~ruleRowsFit
  /\ error' = DatabaseError
  /\ pc' = "updateFailed"
  /\ UNCHANGED <<tables, locals, handler, input, analysisId>>
  /\ UNCHANGED <<uploadVars, sessionVars, dashboardVars>>

\* 7. the record is updated to 'completed' and the handler returns it
Complete ==
  /\ pc = "updateCompleted"
  /\ analysisResultsTable' =
       [k \in DOMAIN analysisResultsTable |->
          IF analysisResultsTable[k].id = analysisId
          THEN [analysisResultsTable[k] EXCEPT
                  !.status = "completed",
                  !.summary = <<Len(frequentItemsets), Len(associationRules)>>,
                  !.completed_at = TRUE]
          ELSE analysisResultsTable[k]]
  /\ pc' = "returned"
  /\ UNCHANGED <<transactionsTable, frequentItemsetsTable, associationRulesTable,
                 locals, handler, input, analysisId, error>>
  /\ UNCHANGED <<uploadVars, sessionVars, dashboardVars>>

\* the catch block: the record is updated to 'failed' with the error's
\* message and the error is thrown again
MarkFailed ==
  /\ pc = "updateFailed"
  /\ analysisResultsTable' =
       [k \in DOMAIN analysisResultsTable |->
          IF analysisResultsTable[k].id = analysisId
          THEN [analysisResultsTable[k] EXCEPT
                  !.status = "failed",
                  !.error_message = error,
                  !.completed_at = TRUE]
          ELSE analysisResultsTable[k]]
  /\ pc' = "thrown"
  /\ UNCHANGED <<transactionsTable, frequentItemsetsTable, associationRulesTable,
                 locals, handler, input, analysisId, error>>
  /\ UNCHANGED <<uploadVars, sessionVars, dashboardVars>>

\* a database call of the handler fails (connection lost, statement refused).
\* Failing to insert the record leaves no record to update; a failure inside
\* the try goes to the catch; when the catch's own update fails, the Apriori
\* handler logs it and throws the first error, the FP-Growth handler throws
\* the update's error.
DatabaseFault ==
  /\ pc \in {"insertAnalysis", "selectTransactions", "insertItemsets", "insertRules",
             "updateCompleted", "updateFailed"}
  /\ pc' = IF pc \in {"insertAnalysis", "updateFailed"} THEN "thrown" ELSE "updateFailed"
  /\ error' = IF pc = "updateFailed" /\ handler = "apriori" THEN error ELSE DatabaseError
  /\ UNCHANGED <<tables, locals, handler, input, analysisId>>
  /\ UNCHANGED <<uploadVars, sessionVars, dashboardVars>>

Handlers == {"apriori", "fp-growth"}

Next ==
  \/ \E h \in Handlers, in \in Inputs : Call(h, in)
  \/ \E h \in Handlers, in \in Inputs : Reject(h, in)
  \/ CreateAnalysis
  \/ NoTransactions
  \/ Mine
  \/ SaveItemsets
  \/ SaveRules
  \/ SaveRefused
  \/ Complete
  \/ MarkFailed

\* the handlers over a database that answers every call
Spec == Init /\ [][Next]_vars

NextFault == Next \/ DatabaseFault

\* the handlers over a database whose calls may fail
SpecFault == Init /\ [][NextFault]_vars

(***************************************************************************)
(* processExcelFile, one action per await                                  *)
(*                                                                         *)
(* The file on disk is a sequence of lines, a line a sequence of cells as  *)
(* parseCSVData leaves them (trimmed, quotes removed): a label or id is a  *)
(* positive number, EmptyCell the empty string, UndefinedCell and NullCell *)
(* the strings 'undefined' and 'null'.  A blank line is <<EmptyCell>>.     *)
(***************************************************************************)
\* most data lines of a file on disk
MaxRows == 2

EmptyCell == 0
UndefinedCell == -1
NullCell == -2
\* a cell of the header line
HeaderCell == -3

\* the header line, and the data lines a file may hold: two valid rows (one
\* with an empty and a repeated cell), a row without transaction id, a row
\* without items, a row of one cell, a blank line
HeaderLine == <<HeaderCell, HeaderCell>>
LinePool ==
  {<<1, 1, 2>>, <<2, EmptyCell, 3, 3>>, <<EmptyCell, 1>>,
   <<3, EmptyCell, UndefinedCell, NullCell>>, <<4>>, <<EmptyCell>>}

\* what readFile may find at file_path
FileContents ==
  {NoFile, FileWith(<<>>), FileWith(<<<<EmptyCell>>>>)}
    \cup {FileWith(<<HeaderLine>> \o lines) :
            lines \in UNION {[1..n -> LinePool] : n \in 0..MaxRows}}

\* error messages of processExcelFile
FileUploadNotFound == "File upload with id not found"
FileIsEmpty == "File is empty"
FileContainsNoData == "File contains no data"
NoValidTransactions == "No valid transactions found in file"

\* line.trim() is empty
IsBlank(line) == line = <<EmptyCell>>

\* parseCSVData: the lines that are not blank, each its cells
parseCSVData(content) == SelectSeq(content, LAMBDA line : ~IsBlank(line))

\* the items of a row: the cells after the first, without the empty ones and
\* without 'undefined' and 'null'
ItemsOfRow(row) ==
  SelectSeq(Tail(row), LAMBDA item : item \notin {EmptyCell, UndefinedCell, NullCell})

\* the loop body goes on to the insert: the row has two cells or more, a
\* transaction id and an item
IsValidRow(row) ==
  /\ Len(row) >= 2
  /\ row[1] # EmptyCell
  /\ Len(ItemsOfRow(row)) > 0

\* the rows from the first one the loop inserts (the rows before are
\* skipped with continue)
RECURSIVE SkipInvalid(_)
SkipInvalid(rows) ==
  IF rows = <<>> THEN <<>>
  ELSE IF IsValidRow(Head(rows)) THEN rows
  ELSE SkipInvalid(Tail(rows))

\* db.update(fileUploadsTable).set({status}).where(eq(id, fileUploadId))
SetFileStatus(status) ==
  [k \in DOMAIN fileUploadsTable |->
     IF fileUploadsTable[k].id = fileUploadId
     THEN [fileUploadsTable[k] EXCEPT !.status = status]
     ELSE fileUploadsTable[k]]

\* the call starts: the file's status is updated to 'processing'
StartProcessing(id) ==
  /\ uploadPc = "idle"
  /\ fileUploadId' = id
  /\ fileUploadsTable' =
       [k \in DOMAIN fileUploadsTable |->
          IF fileUploadsTable[k].id = id
          THEN [fileUploadsTable[k] EXCEPT !.status = "processing"]
          ELSE fileUploadsTable[k]]
  /\ uploadPc' = "selectFile"
  /\ UNCHANGED <<transactionsTable, fileOnDisk, dataRows, uploadTransactions,
                 uploadError, analysisVars, sessionVars, dashboardVars>>

\* the file upload record is selected; without one the call throws
SelectFile ==
  /\ uploadPc = "selectFile"
  /\ IF \E k \in DOMAIN fileUploadsTable : fileUploadsTable[k].id = fileUploadId
     THEN uploadPc' = "readFile" /\ UNCHANGED uploadError
     ELSE uploadPc' = "updateFailed" /\ uploadError' = FileUploadNotFound
  /\ UNCHANGED <<transactionsTable, fileUploadsTable, fileOnDisk, fileUploadId,
                 dataRows, uploadTransactions, analysisVars, sessionVars, dashboardVars>>

\* the await the loop reaches with the rows left: the next insert, or after
\* the loop the throw for an empty list or the update to 'completed'
AfterRows(rows, inserted) ==
  IF rows # <<>> THEN "insertTransaction"
  ELSE IF Len(inserted) = 0 THEN "updateFailed"
  ELSE "updateCompleted"

\* a call whose reading of the file never throws
ReadFileUnchecked ==
  /\ uploadPc = "readFile"
  /\ uploadPc' = "updateCompleted"
  /\ UNCHANGED <<transactionsTable, fileUploadsTable, fileOnDisk, fileUploadId,
                 dataRows, uploadTransactions, uploadError, analysisVars, sessionVars, dashboardVars>>

\* the file is read and parsed, and the loop runs up to its first insert
ReadFile ==
  /\ uploadPc = "readFile"
  /\ IF ~fileOnDisk.exists
     THEN /\ uploadError' = NoSuchFile
          /\ uploadPc' = "updateFailed"
          /\ UNCHANGED dataRows
     ELSE IF \A k \in DOMAIN fileOnDisk.lines : IsBlank(fileOnDisk.lines[k])
     THEN /\ uploadError' = FileIsEmpty
          /\ uploadPc' = "updateFailed"
          /\ UNCHANGED dataRows
     ELSE LET rawData == parseCSVData(fileOnDisk.lines)
              rows == SkipInvalid(Tail(rawData))
          IN  IF Len(rawData) = 0
              THEN /\ uploadError' = FileContainsNoData
                   /\ uploadPc' = "updateFailed"
                   /\ UNCHANGED dataRows
              ELSE /\ dataRows' = rows
                   /\ uploadPc' = AfterRows(rows, uploadTransactions)
                   /\ uploadError' = IF rows = <<>> THEN NoValidTransactions
                                     ELSE uploadError
  /\ UNCHANGED <<transactionsTable, fileUploadsTable, fileOnDisk, fileUploadId,
                 uploadTransactions, analysisVars, sessionVars, dashboardVars>>

\* one row is inserted into transactions and pushed to the result; the loop
\* runs on to its next insert or to its end
InsertTransaction ==
  /\ uploadPc = "insertTransaction"
  /\ LET row == Head(dataRows)
         transaction == [file_upload_id |-> fileUploadId,
                         transaction_id |-> row[1],
                         items |-> ItemsOfRow(row)]
         rows == SkipInvalid(Tail(dataRows))
     IN  /\ transactionsTable' = Append(transactionsTable, transaction)
         /\ uploadTransactions' = Append(uploadTransactions, transaction)
         /\ dataRows' = rows
         /\ uploadPc' = AfterRows(rows, Append(uploadTransactions, transaction))
  /\ UNCHANGED <<fileUploadsTable, fileOnDisk, fileUploadId, uploadError,
                 analysisVars, sessionVars, dashboardVars>>

\* the file's status is updated to 'completed' and the transactions returned
CompleteFile ==
  /\ uploadPc = "updateCompleted"
  /\ fileUploadsTable' = SetFileStatus("completed")
  /\ uploadPc' = "returned"
  /\ UNCHANGED <<transactionsTable, fileOnDisk, fileUploadId, dataRows,
                 uploadTransactions, uploadError, analysisVars, sessionVars, dashboardVars>>

\* the catch block: the file's status is updated to 'failed' and the error
\* is thrown again
FailFile ==
  /\ uploadPc = "updateFailed"
  /\ fileUploadsTable' = SetFileStatus("failed")
  /\ uploadPc' = "thrown"
  /\ UNCHANGED <<transactionsTable, fileOnDisk, fileUploadId, dataRows,
                 uploadTransactions, uploadError, analysisVars, sessionVars, dashboardVars>>

\* a file record that has not been processed, or whose processing failed,
\* with no transaction stored; no analysis is running
InitUpload ==
  /\ transactionsTable = <<>>
  /\ analysisResultsTable = <<>>
  /\ frequentItemsetsTable = <<>>
  /\ associationRulesTable = <<>>
  /\ pc = "idle"
  /\ handler = "none"
  /\ input = NoInput
  /\ analysisId = 0
  /\ frequentItemsets = <<>>
  /\ associationRules = <<>>
  /\ totalTransactions = 0
  /\ error = NoError
  /\ \E status \in {"pending", "failed"} :
       fileUploadsTable = <<[id |-> ExistingFile, status |-> status]>>
  /\ fileOnDisk \in FileContents
  /\ uploadPc = "idle"
  /\ fileUploadId = 0
  /\ dataRows = <<>>
  /\ uploadTransactions = <<>>
  /\ uploadError = NoError
  /\ SessionStart
  /\ DashboardClosed

NextUpload ==
  \/ \E id \in {ExistingFile, MissingFile} : StartProcessing(id)
  \/ SelectFile
  \/ ReadFile
  \/ InsertTransaction
  \/ CompleteFile
  \/ FailFile

\* one processExcelFile call over a database that answers every call
SpecUpload == InitUpload /\ [][NextUpload]_vars

(***************************************************************************)
(* A session: analysis calls one after the other on the same file, and     *)
(* getAssociationRules                                                     *)
(***************************************************************************)
\* most analysis calls of a session
MaxCalls == 2
\* most rows of the files of a session that are enumerated in full
MaxSessionTx == 2

SessionFiles == UNION {[1..n -> TxPool] : n \in 0..MaxSessionTx} \cup LargerFiles

\* what the session keeps of its first call when the next one starts
SettledCall ==
  [handler |-> handler, mined |-> totalTransactions > 0,
   frequentItemsets |-> frequentItemsets]

\* after a call has settled the router calls the handler h again with the
\* same input; the new call starts with its own locals
CallAgain(h) ==
  /\ pc \in {"returned", "thrown"}
  /\ Len(analysisResultsTable) < MaxCalls
  /\ rulesResult = NoResult
  /\ firstCall' = IF firstCall = NoCall THEN SettledCall ELSE firstCall
  /\ pc' = "insertAnalysis"
  /\ handler' = h
  /\ analysisId' = 0
  /\ frequentItemsets' = <<>>
  /\ associationRules' = <<>>
  /\ totalTransactions' = 0
  /\ error' = NoError
  /\ UNCHANGED <<tables, input, uploadVars, rulesResult, dashboardVars>>

\* x sorts before y in a descending ORDER BY on a numeric column (NaN is
\* greater than every number and equal to itself); the values of one column
\* have one scale
NumericAbove(x, y) ==
  IF IsNaN(x) THEN ~IsNaN(y)
  ELSE IF IsNaN(y) THEN FALSE
  ELSE IF x[2] = y[2] THEN x[1] > y[1]
  ELSE x[1] * y[2] > y[1] * x[2]

\* an ORDER BY on the confidence alone
BeforeByConfidence(rule1, rule2) == NumericAbove(rule1.confidence, rule2.confidence)

\* rule1 comes before rule2 by orderBy(desc(confidence), desc(lift))
Before(rule1, rule2) ==
  \/ NumericAbove(rule1.confidence, rule2.confidence)
  \/ /\ ~NumericAbove(rule2.confidence, rule1.confidence)
     /\ NumericAbove(rule1.lift, rule2.lift)

\* rule inserted into the ordered rows: among the rows the ORDER BY leaves
\* tied, after them (tiesLast) or before them
RECURSIVE InsertOrdered(_, _, _)
InsertOrdered(rows, rule, tiesLast) ==
  IF rows = <<>> THEN <<rule>>
  ELSE LET last == rows[Len(rows)]
       IN  IF Before(last, rule) \/ (tiesLast /\ ~Before(rule, last))
           THEN Append(rows, rule)
           ELSE Append(InsertOrdered(SubSeq(rows, 1, Len(rows) - 1), rule, tiesLast), last)

RECURSIVE OrderBy(_, _)
OrderBy(rows, tiesLast) ==
  IF rows = <<>> THEN <<>>
  ELSE InsertOrdered(OrderBy(SubSeq(rows, 1, Len(rows) - 1), tiesLast),
                     rows[Len(rows)], tiesLast)

\* the select of getAssociationRules: the rows of the analysis in the order
\* of the ORDER BY; rows it leaves tied come in an order the database
\* chooses, here the table's or its reverse.  The numeric strings are parsed
\* back to the numbers they denote.
getAssociationRules(id, tiesLast) ==
  OrderBy(SelectSeq(associationRulesTable, LAMBDA rule : rule.analysis_id = id), tiesLast)

\* a client calls getAssociationRules once a call has settled
GetAssociationRules(id) ==
  /\ pc \in {"returned", "thrown"}
  /\ rulesResult = NoResult
  /\ \E tiesLast \in BOOLEAN :
       rulesResult' = [analysisId |-> id, rules |-> getAssociationRules(id, tiesLast)]
  /\ UNCHANGED <<tables, locals, pc, handler, input, analysisId, error,
                 uploadVars, firstCall, dashboardVars>>

InitSession ==
  /\ \E file \in SessionFiles :
       transactionsTable =
         [k \in DOMAIN file |-> [file_upload_id |-> ExistingFile, items |-> file[k]]]
  /\ analysisResultsTable = <<>>
  /\ frequentItemsetsTable = <<>>
  /\ associationRulesTable = <<>>
  /\ pc = "idle"
  /\ handler = "none"
  /\ input = NoInput
  /\ analysisId = 0
  /\ frequentItemsets = <<>>
  /\ associationRules = <<>>
  /\ totalTransactions = 0
  /\ error = NoError
  /\ FileProcessed
  /\ SessionStart
  /\ DashboardClosed

NextSession ==
  \/ Next
  \/ \E h \in Handlers : CallAgain(h)
  \/ \E id \in 1..(MaxCalls + 1) : GetAssociationRules(id)

\* analysis calls in sequence and rule queries, over a database that answers
\* every call
SpecSession == InitSession /\ [][NextSession]_vars

(***************************************************************************)
(* processExcelFile called again                                           *)
(***************************************************************************)
\* most transactions the table holds when another call may start
MaxStored == 3

\* after a call has returned or thrown, processExcelFile is called again on
\* the same file; the new call has its own locals, and the table keeps the
\* rows of the calls before
ProcessAgain(id) ==
  /\ uploadPc \in {"returned", "thrown"}
  /\ Len(transactionsTable) <= MaxStored
  /\ fileUploadId' = id
  /\ fileUploadsTable' =
       [k \in DOMAIN fileUploadsTable |->
          IF fileUploadsTable[k].id = id
          THEN [fileUploadsTable[k] EXCEPT !.status = "processing"]
          ELSE fileUploadsTable[k]]
  /\ dataRows' = <<>>
  /\ uploadTransactions' = <<>>
  /\ uploadError' = NoError
  /\ uploadPc' = "selectFile"
  /\ UNCHANGED <<transactionsTable, fileOnDisk, analysisVars, sessionVars, dashboardVars>>

NextReprocess ==
  \/ NextUpload
  \/ \E id \in {ExistingFile, MissingFile} : ProcessAgain(id)

\* processExcelFile calls one after the other on one file, over a database
\* that answers every call
SpecReprocess == InitUpload /\ [][NextReprocess]_vars

(***************************************************************************)
(* An analysis while processExcelFile runs                                 *)
(***************************************************************************)
\* the steps of one processExcelFile call and of one analysis call in any
\* order: each await of either handler lets the other one run
NextInterleaved ==
  \/ NextUpload
  \/ Next

\* the files of the interleaved calls: a header line and two data rows, and a
\* header line and four data rows in which the items 1 and 2 come in both
\* orders
InterleavedFiles ==
  {FileWith(<<HeaderLine, <<1, 1, 2>>, <<2, EmptyCell, 3, 3>> >>),
   FileWith(<<HeaderLine, <<1, 1>>, <<2, 2, 3>>, <<3, 1, 2, 3>>, <<4, 2, 1, 3>> >>)}

\* the file has been uploaded and not processed; nothing is stored for it
InitInterleaved ==
  /\ transactionsTable = <<>>
  /\ analysisResultsTable = <<>>
  /\ frequentItemsetsTable = <<>>
  /\ associationRulesTable = <<>>
  /\ pc = "idle"
  /\ handler = "none"
  /\ input = NoInput
  /\ analysisId = 0
  /\ frequentItemsets = <<>>
  /\ associationRules = <<>>
  /\ totalTransactions = 0
  /\ error = NoError
  /\ fileUploadsTable = <<[id |-> ExistingFile, status |-> "pending"]>>
  /\ fileOnDisk \in InterleavedFiles
  /\ uploadPc = "idle"
  /\ fileUploadId = 0
  /\ dataRows = <<>>
  /\ uploadTransactions = <<>>
  /\ uploadError = NoError
  /\ SessionStart
  /\ DashboardClosed

SpecInterleaved == InitInterleaved /\ [][NextInterleaved]_vars

(***************************************************************************)
(* DashboardVisualization: the dashboard of the selected analysis.  App    *)
(* renders one DashboardVisualization with analysisId = selectedAnalysis   *)
(* once an analysis is selected, and the same component stays while the    *)
(* selection changes.                                                      *)
(***************************************************************************)
\* the analyses of App's list, and the most queries one run of the model issues
CompletedAnalyses == 1..2
MaxRequests == 4
LoadFailed == "Failed to load dashboard data. Please try again."

\* what the getDashboardData query answers for an analysis: the data carry
\* analysis_id = analysisId, and there is none for an analysis that is not there
getDashboardData(id) ==
  IF id \in CompletedAnalyses THEN [analysis_id |-> id] ELSE NoDashboardData

\* loadDashboardData up to its await: the query for analysisId = id is sent
loadDashboardData(id) ==
  /\ Len(requests) < MaxRequests
  /\ isLoading' = TRUE
  /\ dashboardError' = NoError
  /\ requests' = Append(requests, [analysisId |-> id, state |-> "pending"])
  /\ UNCHANGED dashboardData

\* setSelectedAnalysis(id), from handleAnalysisCompleted or from a click on
\* an analysis: analysisId changes, so the effect runs loadDashboardData
SelectAnalysis(id) ==
  /\ id # selectedAnalysis
  /\ selectedAnalysis' = id
  /\ loadDashboardData(id)
  /\ UNCHANGED <<transactionsTable, analysisVars, uploadVars, sessionVars>>

\* the Retry button of the error view or the Refresh button of the dashboard
Refresh ==
  /\ selectedAnalysis # 0
  /\ ~isLoading
  /\ dashboardError # NoError \/ dashboardData # NoDashboardData
  /\ loadDashboardData(selectedAnalysis)
  /\ UNCHANGED <<selectedAnalysis, transactionsTable, analysisVars, uploadVars,
                 sessionVars>>

\* the query requests[k] resolves: loadDashboardData goes on after its await
QueryResolves(k) ==
  /\ requests[k].state = "pending"
  /\ dashboardData' = getDashboardData(requests[k].analysisId)
  /\ isLoading' = FALSE
  /\ requests' = [requests EXCEPT ![k].state = "fulfilled"]
  /\ UNCHANGED <<selectedAnalysis, dashboardError, transactionsTable, analysisVars,
                 uploadVars, sessionVars>>

\* the query requests[k] rejects: the catch and the finally of loadDashboardData
QueryRejects(k) ==
  /\ requests[k].state = "pending"
  /\ dashboardError' = LoadFailed
  /\ isLoading' = FALSE
  /\ requests' = [requests EXCEPT ![k].state = "rejected"]
  /\ UNCHANGED <<selectedAnalysis, dashboardData, transactionsTable, analysisVars,
                 uploadVars, sessionVars>>

InitDashboard ==
  /\ transactionsTable = <<>>
  /\ analysisResultsTable = <<>>
  /\ frequentItemsetsTable = <<>>
  /\ associationRulesTable = <<>>
  /\ pc = "idle"
  /\ handler = "none"
  /\ input = NoInput
  /\ analysisId = 0
  /\ frequentItemsets = <<>>
  /\ associationRules = <<>>
  /\ totalTransactions = 0
  /\ error = NoError
  /\ FileProcessed
  /\ SessionStart
  /\ DashboardClosed

NextDashboard ==
  \/ \E id \in CompletedAnalyses : SelectAnalysis(id)
  \/ Refresh
  \/ \E k \in DOMAIN requests : QueryResolves(k)
  \/ \E k \in DOMAIN requests : QueryRejects(k)

SpecDashboard == InitDashboard /\ [][NextDashboard]_vars

(***************************************************************************)
(* Properties                                                              *)
(***************************************************************************)
SeqToSet(q) == {q[i] : i \in DOMAIN q}

\* the call has fetched a non-empty transaction list and mined it
Mined == totalTransactions > 0

\* the transaction list of the call
CallTransactions == transactionItemsOf(input.file_upload_id)

\* the number of transactions that contain every item of the set S
TransactionsContaining(transactions, S) ==
  Cardinality({t \in DOMAIN transactions : S \subseteq SeqToSet(transactions[t])})

\* the count a miner's entry carries
EntryCount(h, entry) == IF h = "apriori" THEN entry.frequency ELSE entry.support

\* a miner's result as its set of (canonical itemset, frequency) pairs
ItemsetPairs(h, itemsets) ==
  {<<Sort(itemsets[k].itemset), EntryCount(h, itemsets[k])>> : k \in DOMAIN itemsets}

OtherHandler(h) == IF h = "apriori" THEN "fp-growth" ELSE "apriori"

\* the call is within the miners' stated input: min_support in (0, 1] and
\* transactions that are sets (no label twice in a row of the file)
SetTransactions ==
  /\ Lt(<<0, 1>>, input.min_support)
  /\ \A t \in DOMAIN CallTransactions :
       Cardinality(SeqToSet(CallTransactions[t])) = Len(CallTransactions[t])

\* C1: on the same transactions (sets of items) and min_support in (0, 1] the
\* Apriori miner and the
\* FP-Growth miner return the same set of (canonical itemset, frequency)
\* pairs: what the called miner returned is what the other one returns.
C1_MinersAgree ==
  (Mined /\ SetTransactions) =>
    ItemsetPairs(handler, frequentItemsets) =
      ItemsetPairs(OtherHandler(handler),
                   minedItemsets(OtherHandler(handler), CallTransactions,
                                 input.min_support))

\* the itemsets of a result, as sets of items
ReturnedSets(itemsets) == {SeqToSet(itemsets[k].itemset) : k \in DOMAIN itemsets}

\* the items that occur in some transaction
OccurringItems(transactions) == UNION {SeqToSet(transactions[t]) : t \in DOMAIN transactions}

\* C2: the Apriori miner returns a non-empty itemset (of items that occur in
\* the transactions) exactly when at least min_count = ceil(min_support *
\* total) transactions contain all its items; each returned itemset carries
\* that number of transactions as frequency and frequency / total as support.
C2_AprioriExact ==
  (Mined /\ handler = "apriori") =>
    LET transactions == CallTransactions
        minCount == CeilTimes(input.min_support, Len(transactions))
    IN  /\ \A S \in (SUBSET Items) \ {{}} :
             (S \in ReturnedSets(frequentItemsets)) <=>
               /\ S \subseteq OccurringItems(transactions)
               /\ TransactionsContaining(transactions, S) >= minCount
        /\ \A k \in DOMAIN frequentItemsets :
             LET entry == frequentItemsets[k]
             IN  /\ entry.frequency =
                      TransactionsContaining(transactions, SeqToSet(entry.itemset))
                 /\ NumEq(entry.support, <<entry.frequency, Len(transactions)>>)

\* C2 witness: the Apriori miner returned an itemset of two items or more and
\* left out an itemset of occurring items that is below min_count
C2_Witness ==
  /\ Mined /\ handler = "apriori"
  /\ \E k \in DOMAIN frequentItemsets : Len(frequentItemsets[k].itemset) >= 2
  /\ \E S \in (SUBSET OccurringItems(CallTransactions)) \ {{}} :
       /\ S \notin ReturnedSets(frequentItemsets)
       /\ TransactionsContaining(CallTransactions, S) > 0

\* C3: on transactions that are sets and min_support in (0, 1], the count
\* the FP-Growth miner emits for an itemset is the number of
\* transactions that contain every item of it, so that count / total is a
\* fraction in [0, 1].
C3_FpGrowthCountsExact ==
  (Mined /\ SetTransactions /\ handler = "fp-growth") =>
    \A k \in DOMAIN frequentItemsets :
      /\ frequentItemsets[k].support =
           TransactionsContaining(CallTransactions,
                                  SeqToSet(frequentItemsets[k].itemset))
      /\ frequentItemsets[k].support <= totalTransactions

\* s without its j-th element
RemoveAt(q, j) == SubSeq(q, 1, j - 1) \o SubSeq(q, j + 1, Len(q))

\* C4: anti-monotonicity, on transactions that are sets and min_support in
\* (0, 1], for either miner: with every returned itemset of k >= 2 items, each of
\* its subsets of k - 1 items is in the same result.
C4_AntiMonotone ==
  (Mined /\ SetTransactions) =>
    \A k \in DOMAIN frequentItemsets :
      Len(frequentItemsets[k].itemset) >= 2 =>
        \A j \in DOMAIN frequentItemsets[k].itemset :
          SeqToSet(RemoveAt(frequentItemsets[k].itemset, j))
            \in ReturnedSets(frequentItemsets)

\* the analysis record of the call
CallRecord ==
  analysisResultsTable[CHOOSE k \in DOMAIN analysisResultsTable :
                         analysisResultsTable[k].id = analysisId]

\* the rows persisted for the call
CallItemsetRows == SelectSeq(frequentItemsetsTable, LAMBDA r : r.analysis_id = analysisId)
CallRuleRows == SelectSeq(associationRulesTable, LAMBDA r : r.analysis_id = analysisId)

\* Math.round(support * total) for a stored support
RoundTimes(support, total) ==
  (2 * support[1] * total + support[2]) \div (2 * support[2])

\* the call returned: its analysis is completed
Completed == pc = "returned"

PlusHalfUnit(support) == <<2 * support[1] + 1, 2 * support[2]>>


EntrySupport(h, entry) == IF h = "apriori" THEN entry.support ELSE <<entry.support, 1>>

\* C6: every emitted rule has confidence >= min_confidence, and its
\* confidence is support(antecedent U consequent) / support(antecedent) for
\* supports that the frequent-itemset list given to the generator holds for
\* those two itemsets.
C6_ConfidenceBound ==
  Mined =>
    \A r \in DOMAIN associationRules :
      LET rule == associationRules[r]
      IN  /\ Geq(rule.confidence, input.min_confidence)
          /\ \E f, g \in DOMAIN frequentItemsets :
               /\ SeqToSet(frequentItemsets[f].itemset) =
                    SeqToSet(rule.antecedent) \cup SeqToSet(rule.consequent)
               /\ SeqToSet(frequentItemsets[g].itemset) = SeqToSet(rule.antecedent)
               /\ Len(frequentItemsets[g].itemset) = Len(rule.antecedent)
               /\ NumEq(rule.confidence,
                        Div(EntrySupport(handler, frequentItemsets[f]),
                            EntrySupport(handler, frequentItemsets[g])))

\* C6 witness: with min_confidence above 0, a generator emitted a rule of
\* confidence below 1 and left out a split of an itemset of the list
C6_Witness ==
  /\ Mined
  /\ Lt(<<0, 1>>, input.min_confidence)
  /\ \E r \in DOMAIN associationRules : Lt(associationRules[r].confidence, <<1, 1>>)
  /\ \E f \in DOMAIN frequentItemsets :
       /\ Len(frequentItemsets[f].itemset) >= 2
       /\ \E i \in 1..(Pow2(Len(frequentItemsets[f].itemset)) - 2) :
            \A r \in DOMAIN associationRules :
              associationRules[r].antecedent #
                Sort(SplitSide(frequentItemsets[f].itemset, i, 1))

\* the threshold lies in (0, 1]
InUnitInterval(x) == Lt(<<0, 1>>, x) /\ Geq(<<1, 1>>, x)

\* C7: for every rule emitted under thresholds in (0, 1], antecedent and consequent are non-empty, share
\* no item, and their union is an itemset of the list given to the generator.
C7_Partition ==
  (Mined /\ InUnitInterval(input.min_support)
         /\ InUnitInterval(input.min_confidence)) =>
    \A r \in DOMAIN associationRules :
      LET rule == associationRules[r]
      IN  /\ Len(rule.antecedent) > 0
          /\ Len(rule.consequent) > 0
          /\ SeqToSet(rule.antecedent) \cap SeqToSet(rule.consequent) = {}
          /\ \E f \in DOMAIN frequentItemsets :
               SeqToSet(frequentItemsets[f].itemset) =
                 SeqToSet(rule.antecedent) \cup SeqToSet(rule.consequent)

\* C8: a call that fails after creating its analysis record leaves the record
\* 'failed' with an error message, and no frequent_itemsets or
\* association_rules row of that analysis.
C8_FailedLeavesNothing ==
  (pc = "thrown" /\ analysisId # 0) =>
    /\ CallRecord.status = "failed"
    /\ CallRecord.error_message # NoError
    /\ Len(CallItemsetRows) = 0
    /\ Len(CallRuleRows) = 0

NoTransactionsMessages == {NoTransactionsApriori, NoTransactionsFpGrowth}

\* C9: when the file of the call has no transactions, the call never returns:
\* it throws a 'No transactions found' error, nothing is mined or persisted,
\* and its analysis record is 'failed' with that message.
C9_EmptyInputFatal ==
  (Len(CallTransactions) = 0 /\ analysisId # 0) =>
    /\ pc # "returned"
    /\ pc \in {"selectTransactions", "updateFailed", "thrown"}
    /\ Len(frequentItemsets) = 0 /\ Len(associationRules) = 0
    /\ Len(CallItemsetRows) = 0 /\ Len(CallRuleRows) = 0
    /\ pc \in {"updateFailed", "thrown"} => error \in NoTransactionsMessages
    /\ pc = "thrown" =>
         /\ CallRecord.status = "failed"
         /\ CallRecord.error_message = error

\* C9 witness: a call for an id that no file has has thrown
C9_Witness ==
  /\ pc = "thrown"
  /\ input.file_upload_id = MissingFile
  /\ analysisId # 0

\* C10: a request whose min_support or min_confidence is outside (0, 1] is
\* rejected before an analysis record is created or anything is mined.
C10_InvalidParameterRejected ==
  (pc # "idle" /\ ~(InUnitInterval(input.min_support)
                    /\ InUnitInterval(input.min_confidence))) =>
    /\ pc = "rejected"
    /\ Len(analysisResultsTable) = 0
    /\ ~Mined

\* both thresholds of the call are in (0, 1] and no row repeats a label
ValidCall == SetTransactions /\ InUnitInterval(input.min_confidence)

\* the list holds an entry for the item set of side, with a support other
\* than zero
KnownSupport(h, itemsets, side) ==
  \E f \in DOMAIN itemsets :
    /\ SeqToSet(itemsets[f].itemset) = SeqToSet(side)
    /\ Len(itemsets[f].itemset) = Len(side)
    /\ EntryCount(h, itemsets[f]) # 0

\* C11: every emitted rule has a finite confidence and a finite lift, and
\* both its antecedent and its consequent have a non-zero support in the
\* frequent-itemset list given to the generator (a split with a missing or
\* zero support is skipped).
C11_KnownSupports ==
  (Mined /\ ValidCall) =>
    \A r \in DOMAIN associationRules :
      /\ IsFinite(associationRules[r].confidence)
      /\ IsFinite(associationRules[r].lift)
      /\ KnownSupport(handler, frequentItemsets, associationRules[r].antecedent)
      /\ KnownSupport(handler, frequentItemsets, associationRules[r].consequent)

\* the list of the call in the units of the other path: fractions with the
\* frequency for the Apriori generator, absolute counts for the FP-Growth one
AsFractions(itemsets, total) ==
  [k \in DOMAIN itemsets |->
     [itemset |-> itemsets[k].itemset,
      support |-> <<itemsets[k].support, total>>,
      frequency |-> itemsets[k].support]]

AsCounts(itemsets) ==
  [k \in DOMAIN itemsets |->
     [itemset |-> itemsets[k].itemset, support |-> itemsets[k].frequency]]

\* the rules the other path generates from the list the call mined
OtherPathRules ==
  IF handler = "apriori"
  THEN fpGrowthGenerateAssociationRules(SortItemsets(AsCounts(frequentItemsets)),
                                        input.min_confidence, totalTransactions)
  ELSE aprioriGenerateAssociationRules(AsFractions(frequentItemsets, totalTransactions),
                                       input.min_confidence, totalTransactions)

\* every rule of rules1 is in rules2 with an equal confidence and lift
RulesWithin(rules1, rules2) ==
  \A r \in DOMAIN rules1 :
    \E q \in DOMAIN rules2 :
      /\ rules2[q].antecedent = rules1[r].antecedent
      /\ rules2[q].consequent = rules1[r].consequent
      /\ NumEq(rules2[q].confidence, rules1[r].confidence)
      /\ NumEq(rules2[q].lift, rules1[r].lift)

\* C12: given the same frequent itemsets (fractions for the Apriori path,
\* the corresponding counts for the FP-Growth path), min_confidence and
\* total_transactions, the two generators emit the same (antecedent,
\* consequent) rules with equal confidence and equal lift.
C12_RulePathsAgree ==
  (Mined /\ ValidCall) =>
    /\ RulesWithin(associationRules, OtherPathRules)
    /\ RulesWithin(OtherPathRules, associationRules)

\* the entries of the list for the item set of side
EntriesFor(itemsets, side) ==
  {g \in DOMAIN itemsets :
     /\ SeqToSet(itemsets[g].itemset) = SeqToSet(side)
     /\ Len(itemsets[g].itemset) = Len(side)}

\* the support the generator of handler h takes for the antecedent of a
\* split when the list holds it: Apriori's find returns the first entry, the
\* FP-Growth lookup keeps the last one
AntecedentSupport(h, itemsets, antecedent) ==
  LET hits == EntriesFor(itemsets, antecedent)
  IN  IF h = "apriori"
      THEN itemsets[CHOOSE g \in hits : \A k \in hits : g <= k].support
      ELSE <<itemsets[CHOOSE g \in hits : \A k \in hits : g >= k].support, 1>>

\* the bipartitions <<f, i>> of the entries of size >= 2 of the list
AllSplits(itemsets) ==
  UNION {{<<f, i>> : i \in 1..(Pow2(Len(itemsets[f].itemset)) - 2)} :
           f \in {g \in DOMAIN itemsets : Len(itemsets[g].itemset) >= 2}}

\* the bipartitions whose antecedent and consequent supports are known and
\* whose confidence is at least minConfidence
QualifyingSplits(h, itemsets, minConfidence) ==
  {s \in AllSplits(itemsets) :
     LET antecedent == SplitSide(itemsets[s[1]].itemset, s[2], 1)
         consequent == SplitSide(itemsets[s[1]].itemset, s[2], 0)
     IN  /\ KnownSupport(h, itemsets, antecedent)
         /\ KnownSupport(h, itemsets, consequent)
         /\ Geq(Div(EntrySupport(h, itemsets[s[1]]),
                    AntecedentSupport(h, itemsets, antecedent)),
                minConfidence)}

\* the (antecedent, consequent) pair of a split
SplitPair(itemsets, s) ==
  <<Sort(SplitSide(itemsets[s[1]].itemset, s[2], 1)),
    Sort(SplitSide(itemsets[s[1]].itemset, s[2], 0))>>

\* the rules emitted for a pair
RulesFor(p) ==
  {r \in DOMAIN associationRules :
     /\ associationRules[r].antecedent = p[1]
     /\ associationRules[r].consequent = p[2]}

\* C13: each of the 2^n - 2 bipartitions of an entry of size n >= 2 is
\* considered once, so a pair never has more rules than the list has
\* bipartitions for it; every bipartition whose antecedent and consequent
\* supports are known and whose confidence is at least min_confidence gets
\* exactly one rule; entries of size 1 yield no rule (both sides of every
\* rule are non-empty).
C13_OneRulePerSplit ==
  (Mined /\ ValidCall) =>
    LET all == AllSplits(frequentItemsets)
        qualifying == QualifyingSplits(handler, frequentItemsets, input.min_confidence)
    IN  /\ \A r \in DOMAIN associationRules :
             LET p == <<associationRules[r].antecedent, associationRules[r].consequent>>
             IN  /\ Len(p[1]) > 0 /\ Len(p[2]) > 0
                 /\ Cardinality(RulesFor(p))
                      <= Cardinality({s \in all : SplitPair(frequentItemsets, s) = p})
        /\ \A q \in qualifying :
             LET p == SplitPair(frequentItemsets, q)
             IN  Cardinality(RulesFor(p))
                   >= Cardinality({s \in qualifying : SplitPair(frequentItemsets, s) = p})

\* C13 witness: the list holds an entry of three items, one of its six
\* bipartitions got a rule and another one, of confidence below
\* min_confidence, got none
C13_Witness ==
  /\ Mined /\ ValidCall
  /\ \E f \in DOMAIN frequentItemsets :
       /\ Len(frequentItemsets[f].itemset) = 3
       /\ \E i, j \in 1..6 :
            /\ <<f, i>> \in QualifyingSplits(handler, frequentItemsets, input.min_confidence)
            /\ RulesFor(SplitPair(frequentItemsets, <<f, i>>)) # {}
            /\ RulesFor(SplitPair(frequentItemsets, <<f, j>>)) = {}

\* the call mined the sample transactions at min_support 0.4
SampleCall ==
  /\ Mined
  /\ CallTransactions = SampleTransactions
  /\ input.min_support = <<2, 5>>

\* the miner's entry for the canonical itemset has the count, and for the
\* Apriori miner the support count / 5
SampleEntry(itemset, count) ==
  \E f \in DOMAIN frequentItemsets :
    /\ Sort(frequentItemsets[f].itemset) = itemset
    /\ EntryCount(handler, frequentItemsets[f]) = count
    /\ NumEq(IF handler = "apriori" THEN frequentItemsets[f].support
             ELSE <<frequentItemsets[f].support, totalTransactions>>,
             <<count, 5>>)

\* C14: on the sample transactions with min_support 0.4 either miner returns
\* the four singletons bread (4/5), milk, eggs and butter (3/5 each) and the
\* pair {bread, milk} with support 2/5; with min_confidence <= 0.5 the rule
\* {bread} -> {milk} is emitted with confidence 1/2 and lift 5/6.
C14_WorkedExample ==
  SampleCall =>
    /\ SampleEntry(<<Bread>>, 4)
    /\ SampleEntry(<<Milk>>, 3)
    /\ SampleEntry(<<Eggs>>, 3)
    /\ SampleEntry(<<Butter>>, 3)
    /\ {Sort(frequentItemsets[f].itemset) :
          f \in {g \in DOMAIN frequentItemsets : Len(frequentItemsets[g].itemset) = 1}}
         = {<<Bread>>, <<Butter>>, <<Eggs>>, <<Milk>>}
    /\ SampleEntry(<<Bread, Milk>>, 2)
    /\ Geq(<<1, 2>>, input.min_confidence) =>
         \E r \in DOMAIN associationRules :
           /\ associationRules[r].antecedent = <<Bread>>
           /\ associationRules[r].consequent = <<Milk>>
           /\ NumEq(associationRules[r].confidence, <<1, 2>>)
           /\ NumEq(associationRules[r].lift, <<5, 6>>)

\* C14 witness: the FP-Growth handler returned from the sample transactions
\* at min_support 0.4 and min_confidence 0.5
C14_Witness ==
  /\ SampleCall
  /\ handler = "fp-growth"
  /\ input.min_confidence = <<1, 2>>
  /\ pc = "returned"

\* no single item occurs in min_count transactions of the call
NoFrequentItem ==
  \A item \in OccurringItems(CallTransactions) :
    TransactionsContaining(CallTransactions, {item})
      < CeilTimes(input.min_support, Len(CallTransactions))

RecordFollowsCall ==
  analysisId # 0 =>
    /\ pc \notin {"returned", "thrown"} => CallRecord.status = "processing"
    /\ pc = "returned" =>
         /\ CallRecord.status = "completed"
         /\ CallRecord.summary # <<>>
         /\ CallRecord.completed_at
         /\ CallRecord.error_message = NoError
    /\ pc = "thrown" =>
         /\ CallRecord.status = "failed"
         /\ CallRecord.error_message # NoError
         /\ CallRecord.completed_at

\* a record that is 'completed' or 'failed' keeps its status in the step
TerminalStatusKept ==
  \A k \in DOMAIN analysisResultsTable :
    analysisResultsTable[k].status \in {"completed", "failed"} =>
      /\ k \in DOMAIN analysisResultsTable'
      /\ analysisResultsTable'[k].status = analysisResultsTable[k].status

\* C16: each call creates its record in 'processing'; once the call has
\* settled the record is 'completed' (summary and completed_at set, no error
\* message) if it returned and 'failed' (error message and completed_at set)
\* if it threw, never 'processing'; and a record never leaves 'completed' or
\* 'failed'.
C16_StatusLifecycle == []RecordFollowsCall /\ [][TerminalStatusKept]_vars

\* the items are in sorted order and none is repeated
IsCanonical(q) == \A i \in 1..(Len(q) - 1) : q[i] < q[i + 1]

\* C17: for any file, rows with a repeated label included (thresholds in
\* (0, 1]), every persisted itemset and every persisted rule's antecedent
\* and consequent lists its items in sorted order without repeating one.
C17_CanonicalItemsets ==
  (InUnitInterval(input.min_support) /\ InUnitInterval(input.min_confidence)) =>
    /\ \A k \in DOMAIN CallItemsetRows : IsCanonical(CallItemsetRows[k].itemset)
    /\ \A k \in DOMAIN CallRuleRows :
         /\ IsCanonical(CallRuleRows[k].antecedent)
         /\ IsCanonical(CallRuleRows[k].consequent)

\* the file record of the processExcelFile call, when there is one
HasFileRecord == \E k \in DOMAIN fileUploadsTable : fileUploadsTable[k].id = fileUploadId

FileStatus ==
  fileUploadsTable[CHOOSE k \in DOMAIN fileUploadsTable :
                     fileUploadsTable[k].id = fileUploadId].status

StoredRules(id) == SelectSeq(associationRulesTable, LAMBDA rule : rule.analysis_id = id)

\* how many times the row occurs in the rows
Copies(rows, row) == Cardinality({k \in DOMAIN rows : rows[k] = row})

\* x >= y and x = y in the order of a numeric column, in which NaN equals
\* itself and is above every number
StoredGeq(x, y) == ~NumericAbove(y, x)
StoredEq(x, y) == ~NumericAbove(x, y) /\ ~NumericAbove(y, x)

\* the rules returned are the stored rules of the analysis asked for, each
\* as many times as it is stored, by confidence descending and, for equal
\* confidence, by lift descending
RulesOfAnalysisOrdered ==
  LET rules == rulesResult.rules
      stored == StoredRules(rulesResult.analysisId)
  IN  /\ Len(rules) = Len(stored)
      /\ \A k \in DOMAIN rules :
           /\ rules[k].analysis_id = rulesResult.analysisId
           /\ Copies(rules, rules[k]) = Copies(stored, rules[k])
      /\ \A i, j \in DOMAIN rules :
           i < j =>
             /\ StoredGeq(rules[i].confidence, rules[j].confidence)
             /\ StoredEq(rules[i].confidence, rules[j].confidence) =>
                  StoredGeq(rules[i].lift, rules[j].lift)

\* C19: getAssociationRules(analysisId) returns exactly the stored rules of
\* that analysis (none of another analysis, none when there is none), ordered
\* by confidence descending and, for equal confidence, by lift descending
\* (in the order of the numeric columns).
C19_RulesOfAnalysisOrdered == (rulesResult # NoResult) => RulesOfAnalysisOrdered

\* C19 witness: the table holds rules of two analyses, and the rules
\* returned for one of them include two of equal confidence and different
\* lift and two of different confidence
C19_Witness ==
  /\ rulesResult # NoResult
  /\ InUnitInterval(input.min_support)
  /\ \E k \in DOMAIN associationRulesTable :
       associationRulesTable[k].analysis_id # rulesResult.analysisId
  /\ \E i, j \in DOMAIN rulesResult.rules :
       /\ StoredEq(rulesResult.rules[i].confidence, rulesResult.rules[j].confidence)
       /\ ~StoredEq(rulesResult.rules[i].lift, rulesResult.rules[j].lift)
  /\ \E i, j \in DOMAIN rulesResult.rules :
       ~StoredEq(rulesResult.rules[i].confidence, rulesResult.rules[j].confidence)

\* a miner's result as its set of (canonical itemset, support) pairs, the
\* support as the count over the total
SupportPairs(h, itemsets) ==
  {<<Sort(itemsets[k].itemset), EntryCount(h, itemsets[k]), Len(CallTransactions)>> :
     k \in DOMAIN itemsets}

CallTree ==
  buildTree(CallTransactions, CeilTimes(input.min_support, Len(CallTransactions)))

\* the labels of the nodes above node n, up to the root
RECURSIVE LabelsAbove(_, _)
LabelsAbove(nodes, n) ==
  LET p == nodes[n].parent
  IN  IF p = 0 \/ nodes[p].item = RootLabel THEN {}
      ELSE {nodes[p].item} \cup LabelsAbove(nodes, p)

\* some path of the tree has a node labelled x above a node labelled y
ComesAbove(nodes, x, y) ==
  \E n \in DOMAIN nodes : nodes[n].item = y /\ x \in LabelsAbove(nodes, n)

\* C21: in the FP-tree of a call no two different items occur in both orders:
\* if x is above y on one path, y is above x on no path of the tree.
C21_SingleItemOrder ==
  (Mined /\ handler = "fp-growth") =>
    LET nodes == CallTree.nodes
    IN  \A x, y \in Items \cup {Milk} :
          (x # y /\ ComesAbove(nodes, x, y)) => ~ComesAbove(nodes, y, x)


\* the nodes of the node-link chain from node n on, in chain order
RECURSIVE ChainFrom(_, _)
ChainFrom(nodes, n) ==
  IF n = 0 THEN <<>> ELSE <<n>> \o ChainFrom(nodes, nodes[n].nodeLink)

\* the head of the item's chain, 0 when the item has no header entry
HeadOf(tree, item) ==
  IF \E h \in DOMAIN tree.headerTable : tree.headerTable[h].item = item
  THEN tree.headerTable[CHOOSE h \in DOMAIN tree.headerTable :
                          tree.headerTable[h].item = item].head
  ELSE 0

\* the number of nodes above node n, the root included
RECURSIVE Depth(_, _)
Depth(nodes, n) == IF nodes[n].parent = 0 THEN 0 ELSE 1 + Depth(nodes, nodes[n].parent)

\* the node that is d levels above node n
RECURSIVE Up(_, _, _)
Up(nodes, n, d) == IF d = 0 THEN n ELSE Up(nodes, nodes[n].parent, d - 1)

\* the labels met from the root (excluded) down to the parent of node n
PrefixPath(nodes, n) ==
  [i \in 1..(Depth(nodes, n) - 1) |-> nodes[Up(nodes, n, Depth(nodes, n) - i)].item]

\* the total of the counts of the nodes of the set S
RECURSIVE CountSum(_, _)
CountSum(nodes, S) ==
  IF S = {} THEN 0
  ELSE LET n == CHOOSE n \in S : TRUE
       IN  nodes[n].count + CountSum(nodes, S \ {n})

\* the labels a tree of the model may hold, and one it never holds
TreeItems == Items \cup {Milk}
AbsentItem == Milk + 1

\* the conditional pattern base of the item is, chain node by chain node, the
\* node's prefix path as many times as the node's count; a child of the root
\* gives nothing
PatternBaseOf(tree, item) ==
  LET patterns == getConditionalPatternBase(tree, item)
      chain == ChainFrom(tree.nodes, HeadOf(tree, item))
      chainSet == {chain[k] : k \in DOMAIN chain}
      deep == {n \in chainSet : Depth(tree.nodes, n) > 1}
  IN  /\ Len(patterns) = CountSum(tree.nodes, deep)
      /\ \A n \in deep :
           Cardinality({k \in DOMAIN patterns : patterns[k] = PrefixPath(tree.nodes, n)})
             = CountSum(tree.nodes,
                        {m \in deep : PrefixPath(tree.nodes, m) = PrefixPath(tree.nodes, n)})
      /\ \A k \in DOMAIN patterns :
           /\ Len(patterns[k]) > 0
           /\ ~Includes(patterns[k], RootLabel)
      /\ \A j, k \in DOMAIN chain :
           (j < k /\ chain[j] \in deep /\ chain[k] \in deep) =>
             \E a, b \in DOMAIN patterns :
               /\ a < b
               /\ patterns[a] = PrefixPath(tree.nodes, chain[j])
               /\ patterns[b] = PrefixPath(tree.nodes, chain[k])

RECURSIVE CandidateLevels(_, _, _)
CandidateLevels(transactions, minSupportCount, candidateItemsets) ==
  IF candidateItemsets = <<>> THEN <<>>
  ELSE LET itemsetSupports == CountLevel(transactions, minSupportCount, candidateItemsets)
           next == generateCandidates([k \in DOMAIN itemsetSupports |->
                                         itemsetSupports[k].itemset])
       IN  <<candidateItemsets>> \o CandidateLevels(transactions, minSupportCount, next)

\* the candidate lists of the Apriori call
CallCandidateLevels ==
  LET allItems == Dedup(Flatten(CallTransactions))
  IN  CandidateLevels(CallTransactions,
                      CeilTimes(input.min_support, Len(CallTransactions)),
                      [k \in DOMAIN allItems |-> <<allItems[k]>>])

\* the itemsets of the level's candidates that reach the threshold
FrequentOfLevel(candidateItemsets) ==
  LET itemsetSupports ==
        CountLevel(CallTransactions,
                   CeilTimes(input.min_support, Len(CallTransactions)),
                   candidateItemsets)
  IN  {itemsetSupports[k].itemset : k \in DOMAIN itemsetSupports}

\* the sequence is strictly ascending (sorted, no label twice)
StrictlyAscending(s) == \A i, j \in DOMAIN s : i < j => s[i] < s[j]

\* C23: in an Apriori call every candidate of a level k >= 2 is the sorted
\* union of two frequent itemsets of level k - 1 that share k - 2 items, has
\* k different items and occurs once in its level's list; the result holds no
\* itemset twice.
C23_JoinRule ==
  (Mined /\ handler = "apriori") =>
    /\ \A k \in DOMAIN CallCandidateLevels :
         k >= 2 =>
           LET level == CallCandidateLevels[k]
               previous == FrequentOfLevel(CallCandidateLevels[k - 1])
           IN  \A c \in DOMAIN level :
                 /\ Len(level[c]) = k
                 /\ StrictlyAscending(level[c])
                 /\ \E a, b \in previous :
                      /\ a # b
                      /\ Len(a) = k - 1 /\ Len(b) = k - 1
                      /\ Cardinality(SeqToSet(a) \cap SeqToSet(b)) = k - 2
                      /\ SeqToSet(level[c]) = SeqToSet(a) \cup SeqToSet(b)
                 /\ \A d \in DOMAIN level : level[d] = level[c] => d = c
    /\ \A f, g \in DOMAIN frequentItemsets :
         SeqToSet(frequentItemsets[f].itemset) = SeqToSet(frequentItemsets[g].itemset)
           => f = g

\* C23 witness: an Apriori call reaches level 3 with a candidate that more
\* than one pair of frequent 2-itemsets joins to
C23_Witness ==
  /\ Mined /\ handler = "apriori"
  /\ Len(CallCandidateLevels) >= 3
  /\ LET previous == FrequentOfLevel(CallCandidateLevels[2])
     IN  \E a, b, c \in previous :
           /\ a # b /\ a # c /\ b # c
           /\ SeqToSet(a) \cup SeqToSet(b) = SeqToSet(a) \cup SeqToSet(c)
           /\ Cardinality(SeqToSet(a) \cup SeqToSet(b)) = 3
  /\ \E f \in DOMAIN frequentItemsets : Len(frequentItemsets[f].itemset) = 3


\* the number of different items in the transactions of the call
DistinctItems == Cardinality(SeqToSet(Flatten(CallTransactions)))

\* C24: a call that has mined holds a finite result in which no itemset is
\* longer than the number of different items of the input, and the Apriori
\* loop has run at most one level per different item.
C24_MinersBounded ==
  Mined =>
    /\ \A f \in DOMAIN frequentItemsets :
         Len(frequentItemsets[f].itemset) <= DistinctItems
    /\ handler = "apriori" => Len(CallCandidateLevels) <= DistinctItems


\* C25: in the FP-tree of a call, for every entry of the header table the
\* chain from its head visits the nodes labelled with the item, each once,
\* and no other node, and the counts of the visited nodes add up to the
\* entry's count.
C25_NodeLinks ==
  (Mined /\ handler = "fp-growth") =>
    LET tree == CallTree
    IN  \A h \in DOMAIN tree.headerTable :
          LET chain == ChainFrom(tree.nodes, tree.headerTable[h].head)
              visited == {chain[k] : k \in DOMAIN chain}
          IN  /\ visited = {n \in DOMAIN tree.nodes :
                              tree.nodes[n].item = tree.headerTable[h].item}
              /\ Len(chain) = Cardinality(visited)
              /\ CountSum(tree.nodes, visited) = tree.headerTable[h].count

\* C25 witness: the tree has an item with three nodes, and an item one of
\* whose nodes two transactions passed
C25_Witness ==
  /\ Mined /\ handler = "fp-growth"
  /\ \E h \in DOMAIN CallTree.headerTable :
       Len(ChainFrom(CallTree.nodes, CallTree.headerTable[h].head)) >= 3
  /\ \E n \in DOMAIN CallTree.nodes :
       CallTree.nodes[n].item # RootLabel /\ CallTree.nodes[n].count >= 2


\* C26: an FP-Growth call holds no two entries with the same set of items in
\* its result, and no two frequent_itemsets rows of its analysis have the
\* same set of items.
C26_FpGrowthNoDuplicates ==
  handler = "fp-growth" =>
    /\ \A f, g \in DOMAIN frequentItemsets :
         SeqToSet(frequentItemsets[f].itemset) = SeqToSet(frequentItemsets[g].itemset)
           => f = g
    /\ \A f, g \in DOMAIN frequentItemsetsTable :
         (/\ frequentItemsetsTable[f].analysis_id = analysisId
          /\ frequentItemsetsTable[g].analysis_id = analysisId
          /\ SeqToSet(frequentItemsetsTable[f].itemset)
               = SeqToSet(frequentItemsetsTable[g].itemset))
           => f = g


\* C27: the analysis record of a call and the itemset and rule rows stored
\* for it carry the algorithm of the handler that runs, whatever the
\* algorithm field of the input.
C27_RecordedAlgorithm ==
  /\ \A k \in DOMAIN analysisResultsTable :
       analysisResultsTable[k].id = analysisId =>
         analysisResultsTable[k].algorithm = handler
  /\ \A k \in DOMAIN frequentItemsetsTable :
       frequentItemsetsTable[k].analysis_id = analysisId =>
         frequentItemsetsTable[k].algorithm = handler
  /\ \A k \in DOMAIN associationRulesTable :
       associationRulesTable[k].analysis_id = analysisId =>
         associationRulesTable[k].algorithm = handler


\* the transactions stored for the file
StoredTransactions ==
  SelectSeq(transactionsTable, LAMBDA t : t.file_upload_id = ExistingFile)

\* the data rows of the file on disk (the lines after the header that are not
\* blank) with a transaction id and an item that is not empty, as the
\* transactions they are stored as
ValidDataRows ==
  LET lines == IF fileOnDisk.exists THEN fileOnDisk.lines ELSE <<>>
      data == SelectSeq(lines, LAMBDA line : line # <<EmptyCell>> /\ line # HeaderLine)
      valid == SelectSeq(data, LAMBDA row :
                 /\ row[1] # EmptyCell
                 /\ \E c \in 2..Len(row) :
                      row[c] \notin {EmptyCell, UndefinedCell, NullCell})
  IN  [k \in DOMAIN valid |->
         [file_upload_id |-> ExistingFile,
          transaction_id |-> valid[k][1],
          items |-> SelectSeq(SubSeq(valid[k], 2, Len(valid[k])),
                              LAMBDA c : c \notin {EmptyCell, UndefinedCell, NullCell})]]

\* the status of the file's record
UploadedFileStatus ==
  fileUploadsTable[CHOOSE k \in DOMAIN fileUploadsTable :
                     fileUploadsTable[k].id = ExistingFile].status

\* C29: whenever the file's status is 'completed' the transactions stored for
\* it are the valid data rows of the file, each once; a file with status
\* 'failed' has no stored transaction.
C29_StoredAreValidRows ==
  /\ UploadedFileStatus = "completed" =>
       /\ Len(StoredTransactions) = Len(ValidDataRows)
       /\ \A k \in DOMAIN ValidDataRows :
            Copies(StoredTransactions, ValidDataRows[k])
              = Copies(ValidDataRows, ValidDataRows[k])
  /\ UploadedFileStatus = "failed" => StoredTransactions = <<>>


\* C28: when an analysis of the file has returned 'completed' and the
\* processExcelFile call on the file has returned, the analysis has counted
\* all the transactions stored for the file, and its itemsets are those mined
\* from all of them.
C28_AnalysisOverWholeFile ==
  (/\ pc = "returned"
   /\ uploadPc = "returned"
   /\ fileUploadId = ExistingFile
   /\ input.file_upload_id = ExistingFile) =>
    /\ totalTransactions = Len(StoredTransactions)
    /\ frequentItemsets
         = minedItemsets(handler, transactionItemsOf(ExistingFile), input.min_support)


\* the query issued last: the one of the current analysisId
LatestRequest == requests[Len(requests)]
NoRequestInFlight == \A k \in DOMAIN requests : requests[k].state # "pending"
\* the dashboard view is rendered: not the skeleton, the alert or "no data"
DataShown == ~isLoading /\ dashboardError = NoError /\ dashboardData # NoDashboardData

\* C30: once no request is in flight the dashboardData shown belongs to the
\* selected analysisId, and the data, the loading flag and the error are
\* those the latest request (the one for the current analysisId) left,
\* whatever the order in which the responses arrive: while that request is
\* pending the view is loading without error, and once all have settled the
\* data are its data if it resolved and the error is its error if it rejected.
C30_DashboardOfSelectedAnalysis ==
  (requests # <<>>) =>
    /\ (LatestRequest.state = "pending") => (isLoading /\ dashboardError = NoError)
    /\ NoRequestInFlight =>
         /\ ~isLoading
         /\ DataShown => dashboardData.analysis_id = selectedAnalysis
         /\ (LatestRequest.state = "fulfilled") =>
              (dashboardData = getDashboardData(selectedAnalysis) /\ dashboardError = NoError)
         /\ (LatestRequest.state = "rejected") => dashboardError = LoadFailed

====
